---- MODULE Spec2Model ----
(***************************************************************************)
(* The group / task / soft-delete core of the to-do web application.       *)
(*                                                                         *)
(* The repository holds three server implementations of the same /api      *)
(* surface.  Each is modelled from its own source and selected by the      *)
(* variable `variant`, fixed at start-up:                                  *)
(*   "api"      src/unnamed/part_003, lines 297-702 (the deployed server)   *)
(*   "backend"  src/backend/routes/api.routes.js (in-place isDeleted flag)  *)
(*   "test"     src/ToDo_WebApp/test/server.js, lines 422-754               *)
(*                                                                         *)
(* Under Spec one action is one HTTP request handled to completion.  Every *)
(* request has passed the authentication middleware, so it carries the id  *)
(* of an existing user.  Time is counted in units of ten minutes.  The     *)
(* specifications further down follow single handlers await by await.      *)
(***************************************************************************)
EXTENDS Integers, Sequences, FiniteSets, TLC

VARIABLES
    variant,      \* which server implementation is running
    users,        \* User collection: id -> [email]
    groups,       \* Group collection: id -> [type, owner, collaborators]
    tasks,        \* Task collection: id -> task document
    deleted,      \* DeletedTask collection (api, test): sequence of tombstones
    clock,        \* Date.now(), in units of ten minutes
    nextGroupId,  \* the next fresh Group _id
    nextTaskId,   \* the next fresh Task _id
    snap,         \* history: task id -> the document as it was when the last
                  \* softDelete of it began; dropped by any other write to it
    res,          \* the response to the last request
    inflight      \* requests whose handler is between two awaits, with what the
                  \* handler holds in its local variables (used where handlers
                  \* are followed step by step)

vars == <<variant, users, groups, tasks, deleted, clock, nextGroupId, nextTaskId, snap, res, inflight>>

----
\* Bounds of the model.
NumUsers == 2
MaxGroups == 1
MaxTasks == 1
MaxTime == 2

\* Program constants.
NullId == 0
NoTime == -1
\* The empty string a client sends as groupId for "no group".
EmptyId == -1
TEN_MINUTES == 1
TTL_EXPIRES == 1

UserIds == 1..NumUsers
Variants == {"api", "backend", "test"}

\* Values a client puts into request bodies.
Names == {"a"}
Dates == {""}
Times == {""}
Priorities == {"Low", "High"}
GroupTypes == {"personal", "collab"}
\* An email address is the number of the user registered with it; one more
\* address belongs to nobody.
Emails == 1..(NumUsers + 1)

----
\* Array helpers (Mongoose arrays of ObjectIds).
Range(s) == {s[i] : i \in DOMAIN s}

includes(s, x) == x \in Range(s)

RECURSIVE pull(_, _)
pull(s, x) ==
    IF s = <<>> THEN <<>>
    ELSE IF Head(s) = x THEN pull(Tail(s), x)
    ELSE <<Head(s)>> \o pull(Tail(s), x)

\* Mutation: $push in place of $addToSet.
addToSet_push(s, x) == Append(s, x)

addToSet(s, x) == IF includes(s, x) THEN s ELSE Append(s, x)

\* Collection helpers.
Remove(f, k) == [x \in (DOMAIN f) \ {k} |-> f[x]]
Insert(f, k, v) == [x \in (DOMAIN f) \cup {k} |-> IF x = k THEN v ELSE f[x]]

RECURSIVE RemoveAt(_, _)
RemoveAt(s, i) ==
    IF i = 1 THEN Tail(s) ELSE <<Head(s)>> \o RemoveAt(Tail(s), i - 1)

Has(body, f) == f \in DOMAIN body

\* The response to a request: the route that handled it and the HTTP status it
\* sent; status 0 when the handler threw before sending anything.
Response(op, status) == [op |-> op, status |-> status]

\* What the caller gets when an async handler rejects outside any try block:
\* no response at all (Express 4), or the default error handler's 500
\* (Express 5).
UncaughtStatus == {0, 500}

\* Ids a client can name: those handed out so far (an ObjectId cannot be guessed
\* before it exists), and they stay nameable after the document is gone.
KnownGroupIds == 1..(nextGroupId - 1)
KnownTaskIds == 1..(nextTaskId - 1)

\* User.findOne({ email })
findByEmail(email) == {u \in DOMAIN users : users[u].email = email}

\* Group.find({ $or: [{ owner: userId }, { collaborators: userId }] })
userGroups(u) ==
    {g \in DOMAIN groups :
        groups[g].owner = u \/ includes(groups[g].collaborators, u)}

----
Init ==
    /\ variant \in Variants
    /\ users = [u \in UserIds |-> [email |-> u]]
    /\ groups = <<>>
    /\ tasks = <<>>
    /\ deleted = <<>>
    /\ clock = 0
    /\ nextGroupId = 1
    /\ nextTaskId = 1
    /\ snap = <<>>
    /\ res = Response("none", 0)
    /\ inflight = <<>>

\* Time passes.
Tick ==
    /\ clock < MaxTime
    /\ clock' = clock + 1
    /\ UNCHANGED <<variant, inflight, users, groups, tasks, deleted, nextGroupId, nextTaskId, snap, res>>

----
(***************************************************************************)
(* Variant "api": src/unnamed/part_003, apiRouter.                         *)
(***************************************************************************)
\* The bodies of POST /tasks: { name, date, time, priority, done, groupId }.
Api_CreateBodies ==
    [name : Names, date : Dates, time : Times, priority : Priorities,
     done : BOOLEAN, groupId : {NullId} \cup KnownGroupIds]

\* The bodies of PUT /tasks/:id: any subset of the fields; the handler passes
\* every field but groupId through to the update, owner included.
Api_UpdateBodies ==
    {<<>>}
    \cup {[name |-> n] : n \in Names}
    \cup {[date |-> d] : d \in Dates}
    \cup {[time |-> t] : t \in Times}
    \cup {[priority |-> p] : p \in Priorities}
    \cup {[done |-> d] : d \in BOOLEAN}
    \cup {[owner |-> o] : o \in UserIds}
    \cup {[groupId |-> g] : g \in {NullId, EmptyId} \cup KnownGroupIds}
    \cup {[priority |-> p, done |-> TRUE] : p \in Priorities}

\* Mutation: the query without its filter, Task.find().
Api_DataTasks_everyTask(u) == DOMAIN tasks

\* Task.find({ $or: [{ owner: userId }, { group: { $in: groupIds } }] })
Api_DataTasks(u) ==
    {t \in DOMAIN tasks :
        tasks[t].owner = u \/ tasks[t].group \in userGroups(u)}

\* GET /api/data
Api_GetData(u) ==
    /\ variant = "api"
    /\ res' = Response("GET /data", 200)
    /\ UNCHANGED <<variant, inflight, users, groups, tasks, deleted, clock, nextGroupId, nextTaskId, snap>>

\* POST /api/groups
Api_CreateGroup(u, type) ==
    /\ variant = "api"
    /\ nextGroupId <= MaxGroups
    /\ groups' = Insert(groups, nextGroupId,
                        [type |-> type, owner |-> u,
                         collaborators |-> IF type = "collab" THEN <<u>> ELSE <<>>])
    /\ nextGroupId' = nextGroupId + 1
    /\ res' = Response("POST /groups", 201)
    /\ UNCHANGED <<variant, inflight, users, tasks, deleted, clock, nextTaskId, snap>>

\* Mutation: the collaborators are left alone when the type becomes personal.
Api_UpdateGroup_keepsCollaborators(u, g, type) ==
    /\ variant = "api"
    /\ IF g \in DOMAIN groups /\ groups[g].owner = u
       THEN /\ groups' =
                 [groups EXCEPT ![g] =
                     [type |-> IF type # "" THEN type ELSE @.type,
                      owner |-> @.owner,
                      collaborators |->
                          IF type = "collab" /\ ~includes(@.collaborators, u)
                          THEN Append(@.collaborators, u)
                          ELSE @.collaborators]]
            /\ res' = Response("PUT /groups/:id", 200)
       ELSE /\ groups' = groups
            /\ res' = Response("PUT /groups/:id", 404)
    /\ UNCHANGED <<variant, inflight, users, tasks, deleted, clock, nextGroupId, nextTaskId, snap>>

\* PUT /api/groups/:id; type is "" when the body carries none.
Api_UpdateGroup(u, g, type) ==
    /\ variant = "api"
    /\ IF g \in DOMAIN groups /\ groups[g].owner = u
       THEN /\ groups' =
                 [groups EXCEPT ![g] =
                     [type |-> IF type # "" THEN type ELSE @.type,
                      owner |-> @.owner,
                      collaborators |->
                          IF type = "personal" THEN <<>>
                          ELSE IF type = "collab"
                               THEN IF includes(@.collaborators, u)
                                    THEN @.collaborators
                                    ELSE Append(@.collaborators, u)
                               ELSE @.collaborators]]
            /\ res' = Response("PUT /groups/:id", 200)
       ELSE /\ groups' = groups
            /\ res' = Response("PUT /groups/:id", 404)
    /\ UNCHANGED <<variant, inflight, users, tasks, deleted, clock, nextGroupId, nextTaskId, snap>>

\* Mutation: the tasks of the group are deleted with it.
ungroup_deletesTasks(ts, g) ==
    [t \in {x \in DOMAIN ts : ts[x].group # g} |-> ts[t]]

\* Task.updateMany({ group: id }, { group: null })
ungroup(ts, g) ==
    [t \in DOMAIN ts |-> IF ts[t].group = g THEN [ts[t] EXCEPT !.group = NullId] ELSE ts[t]]

\* History bookkeeping: a write to the tasks of group g ends their snapshots.
dropSnapOf(g) ==
    [t \in {x \in DOMAIN snap : ~(x \in DOMAIN tasks /\ tasks[x].group = g)} |-> snap[t]]

\* DELETE /api/groups/:id
Api_DeleteGroup(u, g) ==
    /\ variant = "api"
    /\ IF g \in DOMAIN groups /\ groups[g].owner = u
       THEN /\ groups' = Remove(groups, g)
            /\ tasks' = ungroup(tasks, g)
            /\ snap' = dropSnapOf(g)
            /\ res' = Response("DELETE /groups/:id", 200)
       ELSE /\ UNCHANGED <<groups, tasks, snap>>
            /\ res' = Response("DELETE /groups/:id", 403)
    /\ UNCHANGED <<variant, inflight, users, deleted, clock, nextGroupId, nextTaskId>>

\* POST /api/groups/:id/collaborators.  With no such group the handler throws
\* on groupCheck.owner outside any try block.
Api_AddCollaborator(u, g, email) ==
    /\ variant = "api"
    /\ IF findByEmail(email) = {}
       THEN /\ groups' = groups
            /\ res' = Response("POST /groups/:id/collaborators", 404)
       ELSE LET user == CHOOSE x \in findByEmail(email) : TRUE IN
            IF g \notin DOMAIN groups
            THEN /\ groups' = groups
                 /\ \E s \in UncaughtStatus :
                       res' = Response("POST /groups/:id/collaborators", s)
            ELSE IF groups[g].owner = user
            THEN /\ groups' = groups
                 /\ res' = Response("POST /groups/:id/collaborators", 400)
            ELSE /\ groups' =
                      IF groups[g].type = "collab"
                      THEN [groups EXCEPT ![g].collaborators = addToSet(@, user)]
                      ELSE groups
                 /\ res' = Response("POST /groups/:id/collaborators", 200)
    /\ UNCHANGED <<variant, inflight, users, tasks, deleted, clock, nextGroupId, nextTaskId, snap>>

\* Mutation: the isOwner / isSelf test is missing.
Api_RemoveCollaborator_noCheck(u, g, target) ==
    /\ variant = "api"
    /\ IF g \notin DOMAIN groups
       THEN /\ groups' = groups
            /\ res' = Response("DELETE /groups/:groupId/collaborators/:userId", 404)
       ELSE /\ groups' = [groups EXCEPT ![g].collaborators = pull(@, target)]
            /\ res' = Response("DELETE /groups/:groupId/collaborators/:userId", 200)
    /\ UNCHANGED <<variant, inflight, users, tasks, deleted, clock, nextGroupId, nextTaskId, snap>>

\* DELETE /api/groups/:groupId/collaborators/:userId
Api_RemoveCollaborator(u, g, target) ==
    /\ variant = "api"
    /\ IF g \notin DOMAIN groups
       THEN /\ groups' = groups
            /\ res' = Response("DELETE /groups/:groupId/collaborators/:userId", 404)
       ELSE LET isOwner == groups[g].owner = u
                isSelf == u = target
            IN  IF ~isOwner /\ ~isSelf
                THEN /\ groups' = groups
                     /\ res' = Response("DELETE /groups/:groupId/collaborators/:userId", 403)
                ELSE /\ groups' = [groups EXCEPT ![g].collaborators = pull(@, target)]
                     /\ res' = Response("DELETE /groups/:groupId/collaborators/:userId", 200)
    /\ UNCHANGED <<variant, inflight, users, tasks, deleted, clock, nextGroupId, nextTaskId, snap>>

\* POST /api/tasks: new Task({ ...req.body, owner: req.userId, group: req.body.groupId || null })
Api_CreateTask(u, body) ==
    /\ variant = "api"
    /\ nextTaskId <= MaxTasks
    /\ tasks' = Insert(tasks, nextTaskId,
                       [name |-> body.name, date |-> body.date, time |-> body.time,
                        priority |-> body.priority, done |-> body.done,
                        createdAt |-> clock, owner |-> u, group |-> body.groupId])
    /\ nextTaskId' = nextTaskId + 1
    /\ res' = Response("POST /tasks", 201)
    /\ UNCHANGED <<variant, inflight, users, groups, deleted, clock, nextGroupId, snap>>

\* const { groupId, ...rest } = req.body; update = { ...rest }; and, only when
\* groupId is defined, update.group = groupId || null.
Api_applyUpdate(task, body) ==
    [name |-> IF Has(body, "name") THEN body.name ELSE task.name,
     date |-> IF Has(body, "date") THEN body.date ELSE task.date,
     time |-> IF Has(body, "time") THEN body.time ELSE task.time,
     priority |-> IF Has(body, "priority") THEN body.priority ELSE task.priority,
     done |-> IF Has(body, "done") THEN body.done ELSE task.done,
     createdAt |-> task.createdAt,
     owner |-> IF Has(body, "owner") THEN body.owner ELSE task.owner,
     group |-> IF Has(body, "groupId")
               THEN (IF body.groupId = EmptyId THEN NullId ELSE body.groupId)
               ELSE task.group]

\* PUT /api/tasks/:id.  With no such task the handler throws on task.toObject()
\* outside any try block.
Api_UpdateTask(u, t, body) ==
    /\ variant = "api"
    /\ IF t \in DOMAIN tasks
       THEN /\ tasks' = [tasks EXCEPT ![t] = Api_applyUpdate(@, body)]
            /\ snap' = Remove(snap, t)
            /\ res' = Response("PUT /tasks/:id", 200)
       ELSE /\ UNCHANGED <<tasks, snap>>
            /\ \E s \in UncaughtStatus : res' = Response("PUT /tasks/:id", s)
    /\ UNCHANGED <<variant, inflight, users, groups, deleted, clock, nextGroupId, nextTaskId>>

\* new DeletedTask({ taskData: task, owner: req.userId }); expiresAt defaults to
\* Date.now() + 10 * 60 * 1000.
Tombstone(t, u) ==
    [id |-> t, taskData |-> tasks[t], owner |-> u, expiresAt |-> clock + TEN_MINUTES]

\* DELETE /api/tasks/:id
Api_DeleteTask(u, t) ==
    /\ variant = "api"
    /\ IF t \in DOMAIN tasks
       THEN /\ deleted' = Append(deleted, Tombstone(t, u))
            /\ tasks' = Remove(tasks, t)
            /\ snap' = Insert(snap, t, tasks[t])
       ELSE UNCHANGED <<deleted, tasks, snap>>
    /\ res' = Response("DELETE /tasks/:id", 200)
    /\ UNCHANGED <<variant, inflight, users, groups, clock, nextGroupId, nextTaskId>>

\* DELETE /api/tasks/completed: "/tasks/:id" is registered first, so the request
\* runs the single-task handler with id = "completed"; Task.findById throws a
\* CastError outside any try block.
Api_DeleteCompleted(u) ==
    /\ variant = "api"
    /\ \E s \in UncaughtStatus : res' = Response("DELETE /tasks/completed", s)
    /\ UNCHANGED <<variant, inflight, users, groups, tasks, deleted, clock, nextGroupId, nextTaskId, snap>>

\* The TTL index on DeletedTask.expiresAt ({ expires: "10m" }): MongoDB removes
\* a document once expiresAt + 10 minutes has passed.
TtlPurge(i) ==
    /\ i \in DOMAIN deleted
    /\ clock >= deleted[i].expiresAt + TTL_EXPIRES
    /\ deleted' = RemoveAt(deleted, i)
    /\ snap' = Remove(snap, deleted[i].id)
    /\ UNCHANGED <<variant, inflight, users, groups, tasks, clock, nextGroupId, nextTaskId, res>>

NextApi ==
    \/ \E u \in UserIds : Api_GetData(u)
    \/ \E u \in UserIds, type \in GroupTypes : Api_CreateGroup(u, type)
    \/ \E u \in UserIds, g \in KnownGroupIds, type \in GroupTypes \cup {""} : Api_UpdateGroup(u, g, type)
    \/ \E u \in UserIds, g \in KnownGroupIds : Api_DeleteGroup(u, g)
    \/ \E u \in UserIds, g \in KnownGroupIds, email \in Emails : Api_AddCollaborator(u, g, email)
    \/ \E u \in UserIds, g \in KnownGroupIds, target \in UserIds : Api_RemoveCollaborator(u, g, target)
    \/ \E u \in UserIds, body \in Api_CreateBodies : Api_CreateTask(u, body)
    \/ \E u \in UserIds, t \in KnownTaskIds, body \in Api_UpdateBodies : Api_UpdateTask(u, t, body)
    \/ \E u \in UserIds, t \in KnownTaskIds : Api_DeleteTask(u, t)
    \/ \E u \in UserIds : Api_DeleteCompleted(u)

----
(***************************************************************************)
(* Variant "test": src/ToDo_WebApp/test/server.js, apiRouter.              *)
(***************************************************************************)
\* The bodies of POST /tasks: { name, date, time, priority, groupId }.
Test_CreateBodies ==
    [name : Names, date : Dates, time : Times, priority : Priorities,
     groupId : {NullId} \cup KnownGroupIds]

\* The bodies of PUT /tasks/:id: the handler reads name, date, time, priority,
\* groupId and done, and drops the undefined ones.
Test_UpdateBodies ==
    {<<>>}
    \cup {[name |-> n] : n \in Names}
    \cup {[date |-> d] : d \in Dates}
    \cup {[time |-> t] : t \in Times}
    \cup {[priority |-> p] : p \in Priorities}
    \cup {[done |-> d] : d \in BOOLEAN}
    \cup {[groupId |-> g] : g \in {NullId, EmptyId} \cup KnownGroupIds}
    \cup {[priority |-> p, done |-> TRUE] : p \in Priorities}

\* Task.find({ $or: [{ owner: userId }, { group: { $in: groupIds } }] })
Test_DataTasks(u) ==
    {t \in DOMAIN tasks :
        tasks[t].owner = u \/ tasks[t].group \in userGroups(u)}

\* GET /api/data
Test_GetData(u) ==
    /\ variant = "test"
    /\ res' = Response("GET /data", 200)
    /\ UNCHANGED <<variant, inflight, users, groups, tasks, deleted, clock, nextGroupId, nextTaskId, snap>>

\* POST /api/groups
Test_CreateGroup(u, type) ==
    /\ variant = "test"
    /\ nextGroupId <= MaxGroups
    /\ groups' = Insert(groups, nextGroupId,
                        [type |-> type, owner |-> u,
                         collaborators |-> IF type = "collab" THEN <<u>> ELSE <<>>])
    /\ nextGroupId' = nextGroupId + 1
    /\ res' = Response("POST /groups", 201)
    /\ UNCHANGED <<variant, inflight, users, tasks, deleted, clock, nextTaskId, snap>>

\* Mutation: the group is looked up by id alone, without owner: userId.
Test_DeleteGroup_anyUser(u, g) ==
    /\ variant = "test"
    /\ IF g \in DOMAIN groups
       THEN /\ tasks' = ungroup(tasks, g)
            /\ groups' = Remove(groups, g)
            /\ snap' = dropSnapOf(g)
            /\ res' = Response("DELETE /groups/:id", 200)
       ELSE /\ UNCHANGED <<groups, tasks, snap>>
            /\ res' = Response("DELETE /groups/:id", 403)
    /\ UNCHANGED <<variant, inflight, users, deleted, clock, nextGroupId, nextTaskId>>

\* DELETE /api/groups/:id
Test_DeleteGroup(u, g) ==
    /\ variant = "test"
    /\ IF g \in DOMAIN groups /\ groups[g].owner = u
       THEN /\ tasks' = ungroup(tasks, g)
            /\ groups' = Remove(groups, g)
            /\ snap' = dropSnapOf(g)
            /\ res' = Response("DELETE /groups/:id", 200)
       ELSE /\ UNCHANGED <<groups, tasks, snap>>
            /\ res' = Response("DELETE /groups/:id", 403)
    /\ UNCHANGED <<variant, inflight, users, deleted, clock, nextGroupId, nextTaskId>>

\* POST /api/groups/:id/collaborators
Test_AddCollaborator(u, g, email) ==
    /\ variant = "test"
    /\ IF findByEmail(email) = {}
       THEN /\ groups' = groups
            /\ res' = Response("POST /groups/:id/collaborators", 404)
       ELSE LET userToAdd == CHOOSE x \in findByEmail(email) : TRUE IN
            IF g \notin DOMAIN groups
            THEN /\ groups' = groups
                 /\ res' = Response("POST /groups/:id/collaborators", 404)
            ELSE IF groups[g].type # "collab"
            THEN /\ groups' = groups
                 /\ res' = Response("POST /groups/:id/collaborators", 400)
            ELSE /\ groups' = [groups EXCEPT ![g].collaborators = addToSet(@, userToAdd)]
                 /\ res' = Response("POST /groups/:id/collaborators", 200)
    /\ UNCHANGED <<variant, inflight, users, tasks, deleted, clock, nextGroupId, nextTaskId, snap>>

\* POST /api/tasks
Test_CreateTask(u, body) ==
    /\ variant = "test"
    /\ nextTaskId <= MaxTasks
    /\ tasks' = Insert(tasks, nextTaskId,
                       [name |-> body.name, date |-> body.date, time |-> body.time,
                        priority |-> body.priority, done |-> FALSE,
                        createdAt |-> clock, owner |-> u, group |-> body.groupId])
    /\ nextTaskId' = nextTaskId + 1
    /\ res' = Response("POST /tasks", 201)
    /\ UNCHANGED <<variant, inflight, users, groups, deleted, clock, nextGroupId, snap>>

\* Mutation: group: groupId is written also when the request carries no
\* groupId, so an update without it clears the group.
Test_applyUpdate_overwritesGroup(task, body) ==
    [name |-> IF Has(body, "name") THEN body.name ELSE task.name,
     date |-> IF Has(body, "date") THEN body.date ELSE task.date,
     time |-> IF Has(body, "time") THEN body.time ELSE task.time,
     priority |-> IF Has(body, "priority") THEN body.priority ELSE task.priority,
     done |-> IF Has(body, "done") THEN body.done ELSE task.done,
     createdAt |-> task.createdAt,
     owner |-> task.owner,
     group |-> IF Has(body, "groupId") THEN body.groupId ELSE NullId]

\* updateData = { name, date, time, priority, group: groupId, done } without the
\* undefined entries.
Test_applyUpdate(task, body) ==
    [name |-> IF Has(body, "name") THEN body.name ELSE task.name,
     date |-> IF Has(body, "date") THEN body.date ELSE task.date,
     time |-> IF Has(body, "time") THEN body.time ELSE task.time,
     priority |-> IF Has(body, "priority") THEN body.priority ELSE task.priority,
     done |-> IF Has(body, "done") THEN body.done ELSE task.done,
     createdAt |-> task.createdAt,
     owner |-> task.owner,
     group |-> IF Has(body, "groupId") THEN body.groupId ELSE task.group]

\* PUT /api/tasks/:id.  The test for "" reads updateData.groupId, which is
\* never set, so group: "" reaches findByIdAndUpdate and fails the cast to
\* ObjectId, caught as 500.
Test_UpdateTask(u, t, body) ==
    /\ variant = "test"
    /\ IF Has(body, "groupId") /\ body.groupId = EmptyId
       THEN /\ UNCHANGED <<tasks, snap>>
            /\ res' = Response("PUT /tasks/:id", 500)
       ELSE IF t \in DOMAIN tasks
       THEN /\ tasks' = [tasks EXCEPT ![t] = Test_applyUpdate(@, body)]
            /\ snap' = Remove(snap, t)
            /\ res' = Response("PUT /tasks/:id", 200)
       ELSE /\ UNCHANGED <<tasks, snap>>
            /\ res' = Response("PUT /tasks/:id", 404)
    /\ UNCHANGED <<variant, inflight, users, groups, deleted, clock, nextGroupId, nextTaskId>>

\* DELETE /api/tasks/:id
Test_DeleteTask(u, t) ==
    /\ variant = "test"
    /\ IF t \in DOMAIN tasks
       THEN /\ deleted' = Append(deleted, Tombstone(t, u))
            /\ tasks' = Remove(tasks, t)
            /\ snap' = Insert(snap, t, tasks[t])
            /\ res' = Response("DELETE /tasks/:id", 200)
       ELSE /\ UNCHANGED <<deleted, tasks, snap>>
            /\ res' = Response("DELETE /tasks/:id", 404)
    /\ UNCHANGED <<variant, inflight, users, groups, clock, nextGroupId, nextTaskId>>

\* DeletedTask.findOne({ "taskData._id": taskId, owner: req.userId })
\*            .sort({ expiresAt: -1 }): the indexes of the matching tombstones
\* with the latest expiry.
Test_findDeleted(u, t) ==
    LET match == {i \in DOMAIN deleted : deleted[i].id = t /\ deleted[i].owner = u}
    IN  {i \in match : \A j \in match : deleted[j].expiresAt <= deleted[i].expiresAt}

\* Mutation: the restored task is built anew from the saved fields, so its
\* createdAt is taken again from Date.now().
Test_Undo_freshCreatedAt(u, t) ==
    /\ variant = "test"
    /\ IF Test_findDeleted(u, t) = {}
       THEN /\ UNCHANGED <<deleted, tasks>>
            /\ res' = Response("POST /tasks/:id/undo", 404)
       ELSE LET i == CHOOSE x \in Test_findDeleted(u, t) :
                         \A y \in Test_findDeleted(u, t) : x <= y
            IN  IF t \in DOMAIN tasks
                THEN /\ UNCHANGED <<deleted, tasks>>
                     /\ res' = Response("POST /tasks/:id/undo", 500)
                ELSE /\ tasks' = Insert(tasks, t, [deleted[i].taskData EXCEPT !.createdAt = clock])
                     /\ deleted' = RemoveAt(deleted, i)
                     /\ res' = Response("POST /tasks/:id/undo", 200)
    /\ UNCHANGED <<variant, inflight, users, groups, clock, nextGroupId, nextTaskId, snap>>

\* POST /api/tasks/:id/undo.  Saving the restored document fails with a
\* duplicate key when a task with that _id exists.
Test_Undo(u, t) ==
    /\ variant = "test"
    /\ IF Test_findDeleted(u, t) = {}
       THEN /\ UNCHANGED <<deleted, tasks>>
            /\ res' = Response("POST /tasks/:id/undo", 404)
       ELSE LET i == CHOOSE x \in Test_findDeleted(u, t) :
                         \A y \in Test_findDeleted(u, t) : x <= y
            IN  IF t \in DOMAIN tasks
                THEN /\ UNCHANGED <<deleted, tasks>>
                     /\ res' = Response("POST /tasks/:id/undo", 500)
                ELSE /\ tasks' = Insert(tasks, t, deleted[i].taskData)
                     /\ deleted' = RemoveAt(deleted, i)
                     /\ res' = Response("POST /tasks/:id/undo", 200)
    /\ UNCHANGED <<variant, inflight, users, groups, clock, nextGroupId, nextTaskId, snap>>

\* DELETE /api/tasks/completed: "/tasks/:id" is registered first, so the request
\* runs the single-task handler with id = "completed"; Task.findById throws a
\* CastError, caught as 500.
Test_DeleteCompleted(u) ==
    /\ variant = "test"
    /\ res' = Response("DELETE /tasks/completed", 500)
    /\ UNCHANGED <<variant, inflight, users, groups, tasks, deleted, clock, nextGroupId, nextTaskId, snap>>

NextTest ==
    \/ \E u \in UserIds : Test_GetData(u)
    \/ \E u \in UserIds, type \in GroupTypes : Test_CreateGroup(u, type)
    \/ \E u \in UserIds, g \in KnownGroupIds : Test_DeleteGroup(u, g)
    \/ \E u \in UserIds, g \in KnownGroupIds, email \in Emails : Test_AddCollaborator(u, g, email)
    \/ \E u \in UserIds, body \in Test_CreateBodies : Test_CreateTask(u, body)
    \/ \E u \in UserIds, t \in KnownTaskIds, body \in Test_UpdateBodies : Test_UpdateTask(u, t, body)
    \/ \E u \in UserIds, t \in KnownTaskIds : Test_DeleteTask(u, t)
    \/ \E u \in UserIds, t \in KnownTaskIds : Test_Undo(u, t)
    \/ \E u \in UserIds : Test_DeleteCompleted(u)

----
(***************************************************************************)
(* Variant "backend": src/backend/routes/api.routes.js.  A task document   *)
(* carries isDeleted and deletedAt; no DeletedTask collection is used.     *)
(***************************************************************************)
\* The bodies of POST /tasks: { name, date, time, priority, groupId }.
Backend_CreateBodies ==
    [name : Names, date : Dates, time : Times, priority : Priorities,
     groupId : {NullId} \cup KnownGroupIds]

\* The bodies of PUT /tasks/:id.
Backend_UpdateBodies ==
    {<<>>}
    \cup {[name |-> n] : n \in Names}
    \cup {[date |-> d] : d \in Dates}
    \cup {[time |-> t] : t \in Times}
    \cup {[priority |-> p] : p \in Priorities}
    \cup {[done |-> d] : d \in BOOLEAN}
    \cup {[groupId |-> g] : g \in {NullId, EmptyId} \cup KnownGroupIds}
    \cup {[priority |-> p, done |-> TRUE] : p \in Priorities}

\* Task.find({ $and: [{ isDeleted: false },
\*   { $or: [{ owner: userId, group: null }, { group: { $in: groupIds } }] }] })
Backend_DataTasks(u) ==
    {t \in DOMAIN tasks :
        /\ tasks[t].isDeleted = FALSE
        /\ \/ (tasks[t].owner = u /\ tasks[t].group = NullId)
           \/ tasks[t].group \in userGroups(u)}

\* GET /api/data
Backend_GetData(u) ==
    /\ variant = "backend"
    /\ res' = Response("GET /data", 200)
    /\ UNCHANGED <<variant, inflight, users, groups, tasks, deleted, clock, nextGroupId, nextTaskId, snap>>

\* POST /api/groups: new Group({ name, type, owner }); collaborators stays [].
Backend_CreateGroup(u, type) ==
    /\ variant = "backend"
    /\ nextGroupId <= MaxGroups
    /\ groups' = Insert(groups, nextGroupId,
                        [type |-> type, owner |-> u, collaborators |-> <<>>])
    /\ nextGroupId' = nextGroupId + 1
    /\ res' = Response("POST /groups", 201)
    /\ UNCHANGED <<variant, inflight, users, tasks, deleted, clock, nextTaskId, snap>>

\* DELETE /api/groups/:id
Backend_DeleteGroup(u, g) ==
    /\ variant = "backend"
    /\ IF g \notin DOMAIN groups
       THEN /\ UNCHANGED <<groups, tasks, snap>>
            /\ res' = Response("DELETE /groups/:id", 404)
       ELSE IF groups[g].owner # u
       THEN /\ UNCHANGED <<groups, tasks, snap>>
            /\ res' = Response("DELETE /groups/:id", 401)
       ELSE /\ tasks' = ungroup(tasks, g)
            /\ groups' = Remove(groups, g)
            /\ snap' = dropSnapOf(g)
            /\ res' = Response("DELETE /groups/:id", 200)
    /\ UNCHANGED <<variant, inflight, users, deleted, clock, nextGroupId, nextTaskId>>

\* POST /api/groups/:id/collaborators
Backend_AddCollaborator(u, g, email) ==
    /\ variant = "backend"
    /\ IF g \notin DOMAIN groups
       THEN /\ groups' = groups
            /\ res' = Response("POST /groups/:id/collaborators", 404)
       ELSE IF groups[g].owner # u
       THEN /\ groups' = groups
            /\ res' = Response("POST /groups/:id/collaborators", 401)
       ELSE IF findByEmail(email) = {}
       THEN /\ groups' = groups
            /\ res' = Response("POST /groups/:id/collaborators", 404)
       ELSE LET userToAdd == CHOOSE x \in findByEmail(email) : TRUE IN
            IF includes(groups[g].collaborators, userToAdd)
            THEN /\ groups' = groups
                 /\ res' = Response("POST /groups/:id/collaborators", 400)
            ELSE /\ groups' = [groups EXCEPT ![g].collaborators = Append(@, userToAdd)]
                 /\ res' = Response("POST /groups/:id/collaborators", 200)
    /\ UNCHANGED <<variant, inflight, users, tasks, deleted, clock, nextGroupId, nextTaskId, snap>>

\* POST /api/tasks
Backend_CreateTask(u, body) ==
    /\ variant = "backend"
    /\ nextTaskId <= MaxTasks
    /\ tasks' = Insert(tasks, nextTaskId,
                       [name |-> body.name, date |-> body.date, time |-> body.time,
                        priority |-> body.priority, done |-> FALSE,
                        createdAt |-> clock, owner |-> u, group |-> body.groupId,
                        isDeleted |-> FALSE, deletedAt |-> NoTime])
    /\ nextTaskId' = nextTaskId + 1
    /\ res' = Response("POST /tasks", 201)
    /\ UNCHANGED <<variant, inflight, users, groups, deleted, clock, nextGroupId, snap>>

\* task.name = ..., task.date = ..., task.time = ..., task.priority = ...,
\* task.done = ...; the group id is assigned to task.groupId, which is no path
\* of the schema, so task.group keeps its value.
Backend_applyUpdate(task, body) ==
    [task EXCEPT
        !.name = IF Has(body, "name") THEN body.name ELSE @,
        !.date = IF Has(body, "date") THEN body.date ELSE @,
        !.time = IF Has(body, "time") THEN body.time ELSE @,
        !.priority = IF Has(body, "priority") THEN body.priority ELSE @,
        !.done = IF Has(body, "done") THEN body.done ELSE @]

\* PUT /api/tasks/:id
Backend_UpdateTask(u, t, body) ==
    /\ variant = "backend"
    /\ IF t \in DOMAIN tasks
       THEN /\ tasks' = [tasks EXCEPT ![t] = Backend_applyUpdate(@, body)]
            /\ snap' = Remove(snap, t)
            /\ res' = Response("PUT /tasks/:id", 200)
       ELSE /\ UNCHANGED <<tasks, snap>>
            /\ res' = Response("PUT /tasks/:id", 404)
    /\ UNCHANGED <<variant, inflight, users, groups, deleted, clock, nextGroupId, nextTaskId>>

\* DELETE /api/tasks/:id: task.isDeleted = true; task.deletedAt = Date.now()
Backend_DeleteTask(u, t) ==
    /\ variant = "backend"
    /\ IF t \in DOMAIN tasks
       THEN /\ tasks' = [tasks EXCEPT ![t].isDeleted = TRUE, ![t].deletedAt = clock]
            /\ snap' = IF tasks[t].isDeleted THEN Remove(snap, t)
                       ELSE Insert(snap, t, tasks[t])
            /\ res' = Response("DELETE /tasks/:id", 200)
       ELSE /\ UNCHANGED <<tasks, snap>>
            /\ res' = Response("DELETE /tasks/:id", 404)
    /\ UNCHANGED <<variant, inflight, users, groups, deleted, clock, nextGroupId, nextTaskId>>

\* POST /api/tasks/:id/undo: task.isDeleted = false; task.deletedAt = null
Backend_Undo(u, t) ==
    /\ variant = "backend"
    /\ IF t \in DOMAIN tasks
       THEN /\ tasks' = [tasks EXCEPT ![t].isDeleted = FALSE, ![t].deletedAt = NoTime]
            /\ res' = Response("POST /tasks/:id/undo", 200)
       ELSE /\ tasks' = tasks
            /\ res' = Response("POST /tasks/:id/undo", 404)
    /\ UNCHANGED <<variant, inflight, users, groups, deleted, clock, nextGroupId, nextTaskId, snap>>

\* DELETE /api/tasks/completed: only "/tasks/:id" matches that path (the bulk
\* handler is registered as "/completed"), so the single-task handler runs with
\* id = "completed"; Task.findById throws a CastError, caught as 500.
Backend_DeleteTasksCompleted(u) ==
    /\ variant = "backend"
    /\ res' = Response("DELETE /tasks/completed", 500)
    /\ UNCHANGED <<variant, inflight, users, groups, tasks, deleted, clock, nextGroupId, nextTaskId, snap>>

\* The filter of the bulk soft delete: done, not deleted, and listed for u.
Backend_completedFilter(u) ==
    {t \in DOMAIN tasks :
        /\ tasks[t].done = TRUE
        /\ tasks[t].isDeleted = FALSE
        /\ \/ (tasks[t].owner = u /\ tasks[t].group = NullId)
           \/ tasks[t].group \in userGroups(u)}

\* DELETE /api/completed: Task.updateMany(filter, { $set: { isDeleted: true,
\* deletedAt: Date.now() } })
Backend_ClearCompleted(u) ==
    /\ variant = "backend"
    /\ tasks' = [t \in DOMAIN tasks |->
                    IF t \in Backend_completedFilter(u)
                    THEN [tasks[t] EXCEPT !.isDeleted = TRUE, !.deletedAt = clock]
                    ELSE tasks[t]]
    /\ snap' = [t \in DOMAIN snap \cup Backend_completedFilter(u) |->
                    IF t \in Backend_completedFilter(u) THEN tasks[t] ELSE snap[t]]
    /\ res' = Response("DELETE /completed", 200)
    /\ UNCHANGED <<variant, inflight, users, groups, deleted, clock, nextGroupId, nextTaskId>>

NextBackend ==
    \/ \E u \in UserIds : Backend_GetData(u)
    \/ \E u \in UserIds, type \in GroupTypes : Backend_CreateGroup(u, type)
    \/ \E u \in UserIds, g \in KnownGroupIds : Backend_DeleteGroup(u, g)
    \/ \E u \in UserIds, g \in KnownGroupIds, email \in Emails : Backend_AddCollaborator(u, g, email)
    \/ \E u \in UserIds, body \in Backend_CreateBodies : Backend_CreateTask(u, body)
    \/ \E u \in UserIds, t \in KnownTaskIds, body \in Backend_UpdateBodies : Backend_UpdateTask(u, t, body)
    \/ \E u \in UserIds, t \in KnownTaskIds : Backend_DeleteTask(u, t)
    \/ \E u \in UserIds, t \in KnownTaskIds : Backend_Undo(u, t)
    \/ \E u \in UserIds : Backend_DeleteTasksCompleted(u)
    \/ \E u \in UserIds : Backend_ClearCompleted(u)

----
Next ==
    \/ Tick
    \/ \E i \in 1..MaxTasks : TtlPurge(i)
    \/ NextApi
    \/ NextTest
    \/ NextBackend

Spec == Init /\ [][Next]_vars

\* Time passes, and MongoDB's TTL monitor runs once a minute for as long as the
\* database is up.
FairSpec ==
    /\ Spec
    /\ WF_vars(Tick)
    /\ WF_vars(\E i \in 1..MaxTasks : TtlPurge(i))

----
(***************************************************************************)
(* Vocabulary of the properties.                                           *)
(***************************************************************************)
\* The groups u owns or collaborates on.
visibleGroups(u) ==
    {g \in DOMAIN groups :
        groups[g].owner = u \/ \E i \in DOMAIN groups[g].collaborators :
                                   groups[g].collaborators[i] = u}

\* The lifecycle state of task t.
Tombstoned(t) ==
    IF variant = "backend"
    THEN t \in DOMAIN tasks /\ tasks[t].isDeleted
    ELSE \E i \in DOMAIN deleted : deleted[i].id = t

Active(t) ==
    IF variant = "backend"
    THEN t \in DOMAIN tasks /\ ~tasks[t].isDeleted
    ELSE t \in DOMAIN tasks

\* The task list GET /api/data returns to u.
DataTasks(u) ==
    CASE variant = "api" -> Api_DataTasks(u)
      [] variant = "test" -> Test_DataTasks(u)
      [] variant = "backend" -> Backend_DataTasks(u)

\* u is neither the owner of task t nor owner or collaborator of its group.
Unrelated(u, t) ==
    /\ tasks[t].owner # u
    /\ tasks[t].group \notin visibleGroups(u)

\* A refusal for lack of permission: 403, or 401 "Not authorized".
Forbidden == {401, 403}
\* A refusal because the operation does not fit the state: 400.
InvalidState == {400}
NotFound == {404}

\* The requests, whichever server handles them.
DeleteGroupStep(u, g) ==
    Api_DeleteGroup(u, g) \/ Test_DeleteGroup(u, g) \/ Backend_DeleteGroup(u, g)

AddCollaboratorStep(u, g, email) ==
    \/ Api_AddCollaborator(u, g, email)
    \/ Test_AddCollaborator(u, g, email)
    \/ Backend_AddCollaborator(u, g, email)

CreateGroupStep(u, type) ==
    \/ Api_CreateGroup(u, type)
    \/ Test_CreateGroup(u, type)
    \/ Backend_CreateGroup(u, type)

CreateTaskStep(u) ==
    \/ \E body \in Api_CreateBodies : Api_CreateTask(u, body)
    \/ \E body \in Test_CreateBodies : Test_CreateTask(u, body)
    \/ \E body \in Backend_CreateBodies : Backend_CreateTask(u, body)

UpdateTaskStep(u, t) ==
    \/ \E body \in Api_UpdateBodies : Api_UpdateTask(u, t, body)
    \/ \E body \in Test_UpdateBodies : Test_UpdateTask(u, t, body)
    \/ \E body \in Backend_UpdateBodies : Backend_UpdateTask(u, t, body)

DeleteTaskStep(u, t) ==
    Api_DeleteTask(u, t) \/ Test_DeleteTask(u, t) \/ Backend_DeleteTask(u, t)

UndoStep(u, t) == Test_Undo(u, t) \/ Backend_Undo(u, t)

\* Task t was created and is destroyed for good: no Task document and no
\* tombstone of it is left.
Purged(t) == t \in KnownTaskIds /\ ~Active(t) /\ ~Tombstoned(t)

\* The expiry of tombstoned task t: the recorded expiresAt, or, where only the
\* deletion time is recorded, deletion time + 10 minutes.
ExpiresAt(t) ==
    IF variant = "backend"
    THEN tasks[t].deletedAt + TEN_MINUTES
    ELSE LET i == CHOOSE x \in DOMAIN deleted : deleted[x].id = t IN deleted[i].expiresAt

\* The expiry recorded for tombstoned task t, NoTime when none is recorded.
RecordedExpiry(t) ==
    IF variant = "backend"
    THEN IF "expiresAt" \in DOMAIN tasks[t] THEN tasks[t].expiresAt ELSE NoTime
    ELSE LET i == CHOOSE x \in DOMAIN deleted : deleted[x].id = t IN deleted[i].expiresAt

\* The record kept of tombstoned task t.
TombstoneOf(t) ==
    IF variant = "backend"
    THEN tasks[t]
    ELSE LET i == CHOOSE x \in DOMAIN deleted : deleted[x].id = t IN deleted[i]

\* The bulk removal of completed tasks, by either of its paths.
ClearCompletedStep(u) ==
    \/ Api_DeleteCompleted(u)
    \/ Test_DeleteCompleted(u)
    \/ Backend_DeleteTasksCompleted(u)
    \/ Backend_ClearCompleted(u)

\* The fields of a task a client may send in an update, under the names the
\* request body uses.
UpdatableFields == {"name", "date", "time", "priority", "done", "groupId"}

\* The key of the request body that addresses field f of a task.
BodyKey(f) == IF f = "group" THEN "groupId" ELSE f

\* What a partial update of task t with body must leave and must store.
PartialUpdateFrame(t, body) ==
    /\ t \in DOMAIN tasks'
    /\ \A f \in DOMAIN tasks[t] :
          /\ BodyKey(f) \notin DOMAIN body => tasks'[t][f] = tasks[t][f]
          /\ (f \in DOMAIN body /\ f # "group" /\ res'.status = 200) =>
                 tasks'[t][f] = body[f]

\* PUT /tasks/:id carrying body, whichever server handles it.
UpdateTaskWith(u, t, body) ==
    \/ body \in Api_UpdateBodies /\ Api_UpdateTask(u, t, body)
    \/ body \in Test_UpdateBodies /\ Test_UpdateTask(u, t, body)
    \/ body \in Backend_UpdateBodies /\ Backend_UpdateTask(u, t, body)

\* Every body a client of some server can send.
UpdateBodies == Api_UpdateBodies \cup Test_UpdateBodies \cup Backend_UpdateBodies

\* A partial update of task t that does not keep to PartialUpdateFrame.
UpdateBreakingFrame(t) ==
    \E u \in UserIds, body \in UpdateBodies :
        /\ DOMAIN body \subseteq UpdatableFields
        /\ UpdateTaskWith(u, t, body)
        /\ ~PartialUpdateFrame(t, body)

\* The group a supplied groupId stands for: none for the empty value.
SuppliedGroup(body) ==
    IF body.groupId \in {NullId, EmptyId} THEN NullId ELSE body.groupId

\* An update of Active task t that carries a groupId and does not leave t in
\* that group, listed for everyone who sees the group.
UpdateNotSettingGroup(t) ==
    \E u \in UserIds, body \in UpdateBodies :
        /\ Has(body, "groupId")
        /\ UpdateTaskWith(u, t, body)
        /\ ~(/\ t \in DOMAIN tasks'
             /\ tasks'[t].group = SuppliedGroup(body)
             /\ \A v \in UserIds :
                   tasks'[t].group \in visibleGroups(v)' => t \in DataTasks(v)')

\* No entry of array s occurs twice.
NoDuplicate(s) == Cardinality(Range(s)) = Len(s)

\* The owner on record for task t, Active or tombstoned.
OwnerOf(t) ==
    IF t \in DOMAIN tasks THEN tasks[t].owner ELSE TombstoneOf(t).taskData.owner

----
(***************************************************************************)
(* C1.  The task list GET /api/data returns to a user never contains a     *)
(* task that another user owns and whose group (null included) is not one  *)
(* the user owns or collaborates on.                                       *)
(***************************************************************************)
C1_NoForeignTask ==
    \A u \in UserIds : \A t \in DataTasks(u) :
        tasks[t].owner = u \/ tasks[t].group \in visibleGroups(u)

\* GET /data has answered while a task of another user sits outside every
\* group of user u, and it is not in u's list.
C1_Witness ==
    /\ res = Response("GET /data", 200)
    /\ \E u \in UserIds, t \in DOMAIN tasks :
          /\ tasks[t].owner # u
          /\ tasks[t].group \notin visibleGroups(u)
          /\ t \notin DataTasks(u)
          /\ \E o \in UserIds : t \in DataTasks(o)

(***************************************************************************)
(* C2.  The task list GET /api/data returns to u is exactly the Active     *)
(* tasks t with t.owner = u or t.group in visibleGroups(u): every Active   *)
(* task u owns is returned, also one in a group u cannot see.              *)
(***************************************************************************)
C2_ExactlyVisible ==
    \A u \in UserIds :
        DataTasks(u) =
            {t \in DOMAIN tasks :
                Active(t) /\ (tasks[t].owner = u \/ tasks[t].group \in visibleGroups(u))}

(***************************************************************************)
(* C3.  A successful group delete of g keeps the set of task ids, sets     *)
(* group = null on every task that referenced g, changing nothing else of  *)
(* it, and modifies no other task.                                         *)
(***************************************************************************)
C3_GroupDeleteUngroups ==
    [][\A u \in UserIds, g \in KnownGroupIds :
          (DeleteGroupStep(u, g) /\ res'.status = 200) =>
              /\ g \in DOMAIN groups /\ g \notin DOMAIN groups'
              /\ DOMAIN tasks' = DOMAIN tasks
              /\ \A t \in DOMAIN tasks :
                    tasks'[t] = IF tasks[t].group = g
                                THEN [tasks[t] EXCEPT !.group = NullId]
                                ELSE tasks[t]]_vars

\* A group delete has succeeded and an ungrouped task is still there.
C3_Witness ==
    /\ res = Response("DELETE /groups/:id", 200)
    /\ groups = <<>>
    /\ \E t \in DOMAIN tasks : tasks[t].group = NullId

(***************************************************************************)
(* C4.  A task update or a task delete issued by a user who is neither the *)
(* task's owner nor owner or collaborator of its group is rejected and     *)
(* leaves the task and every tombstone unchanged.                          *)
(***************************************************************************)
C4_UnrelatedRejected ==
    [][\A u \in UserIds, t \in KnownTaskIds :
          ((UpdateTaskStep(u, t) \/ DeleteTaskStep(u, t))
              /\ t \in DOMAIN tasks /\ Unrelated(u, t)) =>
              /\ res'.status \in Forbidden \cup NotFound
              /\ tasks' = tasks
              /\ deleted' = deleted]_vars

(***************************************************************************)
(* C5.  addCollaborator on group g by a user who is not g's owner fails    *)
(* with Forbidden and leaves g's collaborators unchanged.                  *)
(***************************************************************************)
C5_AddByNonOwnerForbidden ==
    [][\A u \in UserIds, g \in KnownGroupIds, email \in Emails :
          (AddCollaboratorStep(u, g, email)
              /\ g \in DOMAIN groups /\ groups[g].owner # u) =>
              /\ res'.status \in Forbidden
              /\ groups' = groups]_vars

(***************************************************************************)
(* C6.  A group delete by a user who is not the group's owner (a           *)
(* collaborator included) fails with a Forbidden result and changes        *)
(* nothing: the group, its collaborators and every task stay as they were. *)
(***************************************************************************)
C6_DeleteByNonOwnerForbidden ==
    [][\A u \in UserIds, g \in KnownGroupIds :
          (DeleteGroupStep(u, g) /\ g \in DOMAIN groups /\ groups[g].owner # u) =>
              /\ res'.status \in Forbidden
              /\ UNCHANGED <<groups, tasks, deleted, users>>]_vars

\* A group delete was refused while the group has a collaborator who is not
\* its owner and holds a task.
C6_Witness ==
    /\ res.op = "DELETE /groups/:id"
    /\ res.status \in Forbidden
    /\ \E g \in DOMAIN groups :
          /\ \E c \in Range(groups[g].collaborators) : c # groups[g].owner
          /\ \E t \in DOMAIN tasks : tasks[t].group = g

(***************************************************************************)
(* C7.  removeCollaborator(g, acting, target) removes target from g's      *)
(* collaborators exactly when acting is g's owner or acting = target; for  *)
(* any other acting user it fails with Forbidden and changes nothing; with *)
(* no group g it fails with NotFound.                                      *)
(***************************************************************************)
C7_RemoveCollaborator ==
    [][\A u \in UserIds, g \in KnownGroupIds, target \in UserIds :
          Api_RemoveCollaborator(u, g, target) =>
              IF g \notin DOMAIN groups
              THEN res'.status \in NotFound /\ groups' = groups
              ELSE IF groups[g].owner = u \/ u = target
              THEN /\ res'.status = 200
                   /\ DOMAIN groups' = DOMAIN groups
                   /\ Range(groups'[g].collaborators) =
                          Range(groups[g].collaborators) \ {target}
                   /\ groups'[g].owner = groups[g].owner
                   /\ groups'[g].type = groups[g].type
                   /\ \A h \in DOMAIN groups \ {g} : groups'[h] = groups[h]
              ELSE res'.status \in Forbidden /\ groups' = groups]_vars

\* A removal has succeeded and left a collaborative group whose only
\* collaborator is its owner: a member who is not the owner is gone.
C7_Witness ==
    /\ res = Response("DELETE /groups/:groupId/collaborators/:userId", 200)
    /\ \E g \in DOMAIN groups :
          /\ groups[g].type = "collab"
          /\ groups[g].collaborators = <<groups[g].owner>>
          /\ \E t \in DOMAIN tasks : tasks[t].group = g /\ tasks[t].owner # groups[g].owner

C10_TombstonedHidden ==
    [][/\ \A t \in KnownTaskIds' : Tombstoned(t)' => \A u \in UserIds : t \notin DataTasks(u)'
       /\ \A u \in UserIds, t \in KnownTaskIds :
             (DeleteTaskStep(u, t) /\ Active(t)) =>
                 /\ Tombstoned(t)'
                 /\ RecordedExpiry(t)' = clock + TEN_MINUTES
       /\ \A u \in UserIds, t \in KnownTaskIds :
             (ClearCompletedStep(u) /\ Tombstoned(t)) =>
                 Tombstoned(t)' /\ TombstoneOf(t)' = TombstoneOf(t)]_vars

(***************************************************************************)
(* C11.  A tombstoned task that has reached its expiry without an undo is  *)
(* eventually purged (as far as the modelled time allows the purge);       *)
(* a purged task stays purged; and no tombstoned task is purged before its *)
(* expiry.                                                                 *)
(***************************************************************************)
C11_ExpiredIsPurged ==
    /\ \A t \in 1..MaxTasks :
          (/\ t \in KnownTaskIds
           /\ Tombstoned(t)
           /\ clock >= ExpiresAt(t)
           /\ ExpiresAt(t) + TTL_EXPIRES <= MaxTime) ~> Purged(t)
    /\ [][\A t \in KnownTaskIds : Purged(t) => Purged(t)']_vars
    /\ [][\A t \in KnownTaskIds :
             (Tombstoned(t) /\ Purged(t)') => clock >= ExpiresAt(t)]_vars

(***************************************************************************)
(* C12.  clearCompleted by u tombstones exactly the Active tasks that are  *)
(* done and visible to u (owned by u, or in a group u owns or collaborates *)
(* on); every other task, and every tombstone, stays as it was.            *)
(***************************************************************************)
C12_ClearCompletedVisibleDone ==
    [][\A u \in UserIds : ClearCompletedStep(u) =>
          \A t \in KnownTaskIds :
              IF Active(t) /\ tasks[t].done
                    /\ (tasks[t].owner = u \/ tasks[t].group \in visibleGroups(u))
              THEN Tombstoned(t)' /\ ~Active(t)'
              ELSE /\ Active(t) => (Active(t)' /\ tasks'[t] = tasks[t])
                   /\ Tombstoned(t) =>
                          (Tombstoned(t)' /\ TombstoneOf(t)' = TombstoneOf(t))]_vars

(***************************************************************************)
(* C13.  A task update whose body holds only fields among name, date,      *)
(* time, priority, done and group leaves every field the body does not     *)
(* hold at its previous value (an update without group never clears the    *)
(* group), and, when it succeeds, stores the supplied name, date, time,    *)
(* priority and done: in no reachable state is an update possible that     *)
(* does otherwise.                                                         *)
(***************************************************************************)
C13_PartialUpdateFrame ==
    \A t \in DOMAIN tasks : ~ENABLED UpdateBreakingFrame(t)

\* An update has succeeded on a task that sits in a group, is done and has
\* priority High, on a server whose create stores done = false: done was set
\* by an update, and the group given at creation is still there.
C13_Witness ==
    /\ res = Response("PUT /tasks/:id", 200)
    /\ variant = "backend"
    /\ \E t \in DOMAIN tasks :
          /\ tasks[t].group # NullId
          /\ tasks[t].done
          /\ tasks[t].priority = "High"

(***************************************************************************)
(* C14.  A task update that carries the group field stores the supplied    *)
(* group, null when the supplied value is empty, and the task is then      *)
(* listed for every user who sees that group: in no reachable state can an *)
(* update of an Active task do otherwise.                                  *)
(***************************************************************************)
C14_UpdateSetsGroup ==
    \A t \in DOMAIN tasks : Active(t) => ~ENABLED UpdateNotSettingGroup(t)

(***************************************************************************)
(* C15.  A task update addressed to an id under which no task exists is    *)
(* answered NotFound and creates or changes no task.                       *)
(***************************************************************************)
C15_UpdateAbsentNotFound ==
    [][\A u \in UserIds, t \in KnownTaskIds :
          (t \notin DOMAIN tasks /\ UpdateTaskStep(u, t)) =>
              /\ res'.status \in NotFound
              /\ tasks' = tasks]_vars

(***************************************************************************)
(* C16.  addCollaborator is idempotent: adding a user who already is a     *)
(* collaborator of the group leaves its collaborators as they were, and no *)
(* group ever holds a collaborator twice.                                  *)
(***************************************************************************)
C16_AddCollaboratorIdempotent ==
    [][/\ \A g \in DOMAIN groups' : NoDuplicate(groups'[g].collaborators)
       /\ \A u \in UserIds, g \in DOMAIN groups, email \in Emails :
             (/\ \E target \in findByEmail(email) :
                    includes(groups[g].collaborators, target)
              /\ AddCollaboratorStep(u, g, email)) =>
                 groups' = groups]_vars

\* On the test server an add has answered 200 and the collaborative group
\* holds its owner alone: the user added was the owner, seeded at creation.
C16_Witness ==
    /\ variant = "test"
    /\ res = Response("POST /groups/:id/collaborators", 200)
    /\ \E g \in DOMAIN groups :
          /\ groups[g].type = "collab"
          /\ groups[g].collaborators = <<groups[g].owner>>

(***************************************************************************)
(* C17.  Every personal group has no collaborators, and addCollaborator on *)
(* a personal group, by its owner and for an existing user other than the  *)
(* owner, fails with InvalidState and adds nobody.                         *)
(***************************************************************************)
C17_PersonalHasNoCollaborators ==
    [][/\ \A g \in DOMAIN groups' :
             groups'[g].type = "personal" => groups'[g].collaborators = <<>>
       /\ \A u \in UserIds, g \in DOMAIN groups, email \in Emails :
             (/\ groups[g].type = "personal"
              /\ groups[g].owner = u
              /\ findByEmail(email) \notin {{}, {u}}
              /\ AddCollaboratorStep(u, g, email)) =>
                 /\ res'.status \in InvalidState
                 /\ groups' = groups]_vars

(***************************************************************************)
(* C18.  Group create seeds the collaborators with exactly the owner for a *)
(* collaborative group and with nobody for a personal one, and after every *)
(* step the collaborators of every collaborative group contain its owner.  *)
(***************************************************************************)
C18_CollabHoldsOwner ==
    [][/\ \A u \in UserIds, type \in GroupTypes :
             CreateGroupStep(u, type) =>
                 /\ nextGroupId \in DOMAIN groups'
                 /\ groups'[nextGroupId].owner = u
                 /\ groups'[nextGroupId].type = type
                 /\ groups'[nextGroupId].collaborators =
                        IF type = "collab" THEN <<u>> ELSE <<>>
       /\ \A g \in DOMAIN groups' :
             groups'[g].type = "collab" =>
                 includes(groups'[g].collaborators, groups'[g].owner)]_vars

(***************************************************************************)
(* C19.  Group update is owner-only: by anyone else it changes nothing.    *)
(* By the owner it keeps the owner and every other group; turning a        *)
(* collaborative group personal leaves it without collaborators, turning a *)
(* personal group collaborative leaves the owner as its only collaborator. *)
(***************************************************************************)
C19_UpdateGroup ==
    [][\A u \in UserIds, g \in KnownGroupIds, type \in GroupTypes \cup {""} :
          Api_UpdateGroup(u, g, type) =>
              IF g \notin DOMAIN groups \/ groups[g].owner # u
              THEN groups' = groups /\ res'.status \in Forbidden \cup NotFound
              ELSE /\ res'.status = 200
                   /\ DOMAIN groups' = DOMAIN groups
                   /\ \A h \in DOMAIN groups \ {g} : groups'[h] = groups[h]
                   /\ groups'[g].owner = groups[g].owner
                   /\ (groups[g].type = "collab" /\ type = "personal") =>
                          /\ groups'[g].type = "personal"
                          /\ groups'[g].collaborators = <<>>
                   /\ (groups[g].type = "personal" /\ type = "collab") =>
                          /\ groups'[g].type = "collab"
                          /\ groups'[g].collaborators = <<groups[g].owner>>]_vars

\* A group update has succeeded and left a personal group, without
\* collaborators, that holds a task of a user who is not its owner.
C19_Witness ==
    /\ res = Response("PUT /groups/:id", 200)
    /\ \E g \in DOMAIN groups :
          /\ groups[g].type = "personal"
          /\ groups[g].collaborators = <<>>
          /\ \E t \in DOMAIN tasks : tasks[t].group = g /\ tasks[t].owner # groups[g].owner

(***************************************************************************)
(* C20.  A task's owner is the authenticated user who created it and never *)
(* changes: create stores the acting user as owner, and no step changes    *)
(* the owner on record of a task, Active or tombstoned.                    *)
(***************************************************************************)
C20_OwnerImmutable ==
    [][/\ \A u \in UserIds :
             CreateTaskStep(u) =>
                 nextTaskId \in DOMAIN tasks' /\ tasks'[nextTaskId].owner = u
       /\ \A t \in KnownTaskIds :
             ((Active(t) \/ Tombstoned(t)) /\ (Active(t)' \/ Tombstoned(t)')) =>
                 OwnerOf(t)' = OwnerOf(t)]_vars

----
(***************************************************************************)
(* Handlers followed await by await.  A request enters `inflight` when its *)
(* handler suspends at an await with work still to do, and leaves it when  *)
(* the handler has answered; other requests run in between.                *)
(***************************************************************************)
\* Bound: the requests that can be suspended at the same time.
MaxInflight == 2

FreeReqs == (1..MaxInflight) \ DOMAIN inflight

\* The slot a newly suspended request takes.
NewReq == CHOOSE r \in FreeReqs : \A x \in FreeReqs : r <= x

----
(***************************************************************************)
(* The account routes: register and profile update.                        *)
(*   api      src/unnamed/part_003, 402-429 and 509-538                     *)
(*   test     src/ToDo_WebApp/test/server.js, 510-528 and 578-594           *)
(*   backend  src/unnamed/part_002, 25-50 and 141-176                       *)
(* A user record is reduced to its email.                                  *)
(***************************************************************************)
\* Bound: the User documents the collection may hold.
MaxAccounts == 3

\* The addresses clients send; NoEmail is a body without email.
EmailInputs == {"a@x", "A@x", "b@x"}
NoEmail == ""

\* String.prototype.toLowerCase, and the schema's lowercase: true.
toLowerCase(e) == IF e = "A@x" THEN "a@x" ELSE e

\* The answer to an email that is taken: 400 "Email already exists".
Conflict == {400, 409}

\* The unique index on User.email: a write of email e to the document of u
\* (NullId: a new document) is refused with E11000 when another document
\* holds e.
DuplicateKey(u, e) == \E v \in DOMAIN users : v # u /\ users[v].email = e

\* The _id of the next User document.
NewUserId == Cardinality(DOMAIN users) + 1

AccountInit ==
    /\ variant \in Variants
    /\ users = [u \in {1} |-> [email |-> "b@x"]]
    /\ groups = <<>>
    /\ tasks = <<>>
    /\ deleted = <<>>
    /\ clock = 0
    /\ nextGroupId = 1
    /\ nextTaskId = 1
    /\ snap = <<>>
    /\ res = Response("none", 0)
    /\ inflight = <<>>

\* POST /auth/register (POST /accounts/register in the backend), up to the
\* await of the password hash: User.findOne({ email }), the address lowercased
\* by the schema setter (api, test) or by the handler (backend).
Register_find(email) ==
    /\ FreeReqs # {}
    /\ IF findByEmail(toLowerCase(email)) # {}
       THEN /\ res' = Response("POST /auth/register", 400)
            /\ inflight' = inflight
       ELSE /\ res' = res
            /\ inflight' = Insert(inflight, NewReq, [op |-> "register", email |-> email])
    /\ UNCHANGED <<variant, users, groups, tasks, deleted, clock, nextGroupId, nextTaskId, snap>>

\* The rest of the register handler: user.save() (User.create in the backend);
\* a duplicate key is caught as 500 "Server error".
Register_save(r) ==
    /\ r \in DOMAIN inflight
    /\ inflight[r].op = "register"
    /\ Cardinality(DOMAIN users) < MaxAccounts
    /\ IF DuplicateKey(NullId, toLowerCase(inflight[r].email))
       THEN /\ users' = users
            /\ res' = Response("POST /auth/register", 500)
       ELSE /\ users' = Insert(users, NewUserId, [email |-> toLowerCase(inflight[r].email)])
            /\ res' = Response("POST /auth/register", 201)
    /\ inflight' = Remove(inflight, r)
    /\ UNCHANGED <<variant, groups, tasks, deleted, clock, nextGroupId, nextTaskId, snap>>

\* PUT /auth/profile of the api and test servers: one
\* User.findByIdAndUpdate(req.userId, { name, email, ... }); an undefined email
\* is dropped from the update, a duplicate key is caught as 400.
Api_UpdateProfile(u, email) ==
    /\ variant \in {"api", "test"}
    /\ IF email # NoEmail /\ DuplicateKey(u, toLowerCase(email))
       THEN /\ users' = users
            /\ res' = Response("PUT /auth/profile", 400)
       ELSE /\ users' = IF email = NoEmail THEN users
                        ELSE [users EXCEPT ![u].email = toLowerCase(email)]
            /\ res' = Response("PUT /auth/profile", 200)
    /\ UNCHANGED <<variant, inflight, groups, tasks, deleted, clock, nextGroupId, nextTaskId, snap>>

\* PUT /accounts/profile of the backend, up to await user.save():
\* User.findById, then user.email = req.body.email.toLowerCase() || user.email,
\* which throws outside the try block when the body has no email.
Backend_UpdateProfile_find(u, email) ==
    /\ variant = "backend"
    /\ FreeReqs # {}
    /\ IF email = NoEmail
       THEN /\ \E s \in UncaughtStatus : res' = Response("PUT /accounts/profile", s)
            /\ inflight' = inflight
       ELSE /\ res' = res
            /\ inflight' = Insert(inflight, NewReq,
                                  [op |-> "profile", u |-> u, email |-> toLowerCase(email),
                                   modified |-> toLowerCase(email) # users[u].email])
    /\ UNCHANGED <<variant, users, groups, tasks, deleted, clock, nextGroupId, nextTaskId, snap>>

\* user.save(): the modified paths are written; a duplicate key is answered
\* 400 "Email already in use".
Backend_UpdateProfile_save(r) ==
    /\ variant = "backend"
    /\ r \in DOMAIN inflight
    /\ inflight[r].op = "profile"
    /\ LET u == inflight[r].u
           e == inflight[r].email
       IN  IF inflight[r].modified /\ DuplicateKey(u, e)
           THEN /\ users' = users
                /\ res' = Response("PUT /accounts/profile", 400)
           ELSE /\ users' = IF inflight[r].modified
                            THEN [users EXCEPT ![u].email = e] ELSE users
                /\ res' = Response("PUT /accounts/profile", 200)
    /\ inflight' = Remove(inflight, r)
    /\ UNCHANGED <<variant, groups, tasks, deleted, clock, nextGroupId, nextTaskId, snap>>

AccountNext ==
    \/ \E email \in EmailInputs : Register_find(email)
    \/ \E r \in 1..MaxInflight : Register_save(r)
    \/ \E u \in DOMAIN users, email \in EmailInputs \cup {NoEmail} : Api_UpdateProfile(u, email)
    \/ \E u \in DOMAIN users, email \in EmailInputs \cup {NoEmail} : Backend_UpdateProfile_find(u, email)
    \/ \E r \in 1..MaxInflight : Backend_UpdateProfile_save(r)

AccountSpec == AccountInit /\ [][AccountNext]_vars

\* The email of another user than u equals e ignoring case.
Collides(u, e) ==
    \E v \in DOMAIN users : v # u /\ toLowerCase(users[v].email) = toLowerCase(e)

\* A register of email answers in this step.
RegisterAnswers(email) ==
    \/ Register_find(email) /\ inflight' = inflight
    \/ \E r \in DOMAIN inflight :
          /\ inflight[r].op = "register"
          /\ inflight[r].email = email
          /\ Register_save(r)

\* A profile update of u to email answers in this step.
ProfileAnswers(u, email) ==
    \/ Api_UpdateProfile(u, email)
    \/ \E r \in DOMAIN inflight :
          /\ inflight[r].op = "profile"
          /\ inflight[r].u = u
          /\ inflight[r].email = toLowerCase(email)
          /\ Backend_UpdateProfile_save(r)

(***************************************************************************)
(* C21.  Under every interleaving of register and profile-update requests, *)
(* no two user records have emails that are equal ignoring case; and a     *)
(* register or profile update that answers while its email collides with   *)
(* another user's fails with Conflict and leaves every user record as it   *)
(* was.                                                                    *)
(***************************************************************************)
C21_EmailUnique ==
    [][/\ \A u, v \in DOMAIN users' :
             u # v => toLowerCase(users'[u].email) # toLowerCase(users'[v].email)
       /\ \A email \in EmailInputs :
             (Collides(NullId, email) /\ RegisterAnswers(email)) =>
                 res'.status \in Conflict /\ users' = users
       /\ \A u \in DOMAIN users, email \in EmailInputs :
             (Collides(u, email) /\ ProfileAnswers(u, email)) =>
                 res'.status \in Conflict /\ users' = users]_vars

----
(***************************************************************************)
(* The handlers that make more than one storage call, followed await by    *)
(* await: group delete, task soft delete and undo.  A suspended handler    *)
(* holds the documents it has read; `wrote` records that it has applied a  *)
(* write.  The storage call a handler awaits may also reject (timeout,     *)
(* lost connection), which ends the handler in its catch block, or, in the *)
(* api server's handlers without try, as an uncaught rejection.            *)
(***************************************************************************)
Success == {200, 201}

\* Tombstones kept at a time.
MaxTombstones == 2

\* The suspended handlers of route op.
Suspended(op) == {r \in DOMAIN inflight : inflight[r].op = op}

\* The _id of the next DeletedTask document: one no tombstone in the collection
\* or in the hands of a suspended undo carries.
NewDeletedId ==
    LET used == {deleted[i].did : i \in DOMAIN deleted}
                \cup {inflight[r].doc.did : r \in Suspended("undo") \cap
                                                 {x \in DOMAIN inflight : variant = "test"}}
    IN  CHOOSE n \in 1..(Cardinality(used) + 1) : n \notin used

\* DELETE /api/groups/:id up to its first suspension with work left.
\*   api      Group.findOneAndDelete({ _id, owner }): the group is gone first
\*   test     Group.findOne({ _id, owner })
\*   backend  Group.findById and the owner test
DeleteGroup_begin(u, g) ==
    /\ FreeReqs # {}
    /\ LET op == "DELETE /groups/:id"
           absent == g \notin DOMAIN groups
           go(w) == /\ inflight' = Insert(inflight, NewReq,
                                          [op |-> "deleteGroup", g |-> g,
                                           pc |-> "ungroup", wrote |-> w])
                    /\ res' = res
           stop(status) == /\ inflight' = inflight
                           /\ res' = Response(op, status)
       IN  CASE variant = "api" ->
                  IF ~absent /\ groups[g].owner = u
                  THEN groups' = Remove(groups, g) /\ go(TRUE)
                  ELSE groups' = groups /\ stop(403)
             [] variant = "test" ->
                  /\ groups' = groups
                  /\ IF ~absent /\ groups[g].owner = u THEN go(FALSE) ELSE stop(403)
             [] variant = "backend" ->
                  /\ groups' = groups
                  /\ IF absent THEN stop(404)
                     ELSE IF groups[g].owner # u THEN stop(401)
                     ELSE go(FALSE)
    /\ UNCHANGED <<variant, users, tasks, deleted, clock, nextGroupId, nextTaskId, snap>>

\* The next storage call of a suspended group delete: Task.updateMany({ group },
\* { group: null }), and, in the test server and the backend, the removal of
\* the group after it.
DeleteGroup_step(r) ==
    /\ r \in Suspended("deleteGroup")
    /\ LET g == inflight[r].g IN
       IF inflight[r].pc = "ungroup"
       THEN /\ tasks' = ungroup(tasks, g)
            /\ groups' = groups
            /\ IF variant = "api"
               THEN /\ inflight' = Remove(inflight, r)
                    /\ res' = Response("DELETE /groups/:id", 200)
               ELSE /\ inflight' = [inflight EXCEPT ![r].pc = "delete", ![r].wrote = TRUE]
                    /\ res' = res
       ELSE /\ groups' = IF g \in DOMAIN groups THEN Remove(groups, g) ELSE groups
            /\ tasks' = tasks
            /\ inflight' = Remove(inflight, r)
            /\ res' = Response("DELETE /groups/:id", 200)
    /\ UNCHANGED <<variant, users, deleted, clock, nextGroupId, nextTaskId, snap>>

\* DELETE /api/tasks/:id up to its first suspension with work left:
\* Task.findById.
DeleteTask_begin(u, t) ==
    /\ FreeReqs # {}
    /\ IF t \in DOMAIN tasks
       THEN /\ inflight' = Insert(inflight, NewReq,
                                  [op |-> "deleteTask", u |-> u, t |-> t, doc |-> tasks[t],
                                   pc |-> "mark", wrote |-> FALSE])
            /\ res' = res
       ELSE /\ inflight' = inflight
            /\ res' = Response("DELETE /tasks/:id", IF variant = "api" THEN 200 ELSE 404)
    /\ UNCHANGED <<variant, users, groups, tasks, deleted, clock, nextGroupId, nextTaskId, snap>>

\* The next storage call of a suspended soft delete.
\*   api, test  new DeletedTask({ taskData: task, owner }).save(), then
\*              Task.findByIdAndDelete
\*   backend    task.save(), which writes the paths whose value the handler
\*              changed on its copy: isDeleted, unless already true, and deletedAt
DeleteTask_step(r) ==
    /\ r \in Suspended("deleteTask")
    /\ LET t == inflight[r].t
           doc == inflight[r].doc
       IN  IF variant = "backend"
           THEN /\ tasks' = IF t \in DOMAIN tasks
                            THEN [tasks EXCEPT ![t].isDeleted = IF doc.isDeleted THEN @ ELSE TRUE,
                                               ![t].deletedAt = clock]
                            ELSE tasks
                /\ deleted' = deleted
                /\ inflight' = Remove(inflight, r)
                /\ res' = Response("DELETE /tasks/:id", 200)
           ELSE IF inflight[r].pc = "mark"
           THEN /\ Len(deleted) < MaxTombstones
                /\ deleted' = Append(deleted,
                                     [id |-> t, taskData |-> doc, owner |-> inflight[r].u,
                                      expiresAt |-> clock + TEN_MINUTES, did |-> NewDeletedId])
                /\ tasks' = tasks
                /\ inflight' = [inflight EXCEPT ![r].pc = "remove", ![r].wrote = TRUE]
                /\ res' = res
           ELSE /\ tasks' = IF t \in DOMAIN tasks THEN Remove(tasks, t) ELSE tasks
                /\ deleted' = deleted
                /\ inflight' = Remove(inflight, r)
                /\ res' = Response("DELETE /tasks/:id", 200)
    /\ UNCHANGED <<variant, users, groups, clock, nextGroupId, nextTaskId, snap>>

\* POST /api/tasks/:id/undo up to its first suspension with work left:
\* DeletedTask.findOne (test), Task.findById (backend).
Undo_begin(u, t) ==
    /\ variant \in {"test", "backend"}
    /\ FreeReqs # {}
    /\ LET found == IF variant = "test" THEN Test_findDeleted(u, t) # {}
                    ELSE t \in DOMAIN tasks
           doc == IF variant = "test"
                  THEN deleted[CHOOSE i \in Test_findDeleted(u, t) : TRUE]
                  ELSE tasks[t]
       IN  IF found
           THEN /\ inflight' = Insert(inflight, NewReq,
                                      [op |-> "undo", t |-> t, doc |-> doc,
                                       pc |-> "restore", wrote |-> FALSE])
                /\ res' = res
           ELSE /\ inflight' = inflight
                /\ res' = Response("POST /tasks/:id/undo", 404)
    /\ UNCHANGED <<variant, users, groups, tasks, deleted, clock, nextGroupId, nextTaskId, snap>>

\* The next storage call of a suspended undo.
\*   test     new Task(deleted.taskData).save(), refused with a duplicate key
\*            when a Task of that _id exists; then
\*            DeletedTask.findByIdAndDelete(deleted._id)
\*   backend  task.save(), which writes isDeleted and deletedAt where the
\*            handler changed them on its copy
Undo_step(r) ==
    /\ r \in Suspended("undo")
    /\ LET t == inflight[r].t
           doc == inflight[r].doc
       IN  IF variant = "backend"
           THEN /\ tasks' = [tasks EXCEPT ![t].isDeleted = IF doc.isDeleted THEN FALSE ELSE @,
                                          ![t].deletedAt = IF doc.deletedAt # NoTime
                                                           THEN NoTime ELSE @]
                /\ deleted' = deleted
                /\ inflight' = Remove(inflight, r)
                /\ res' = Response("POST /tasks/:id/undo", 200)
           ELSE IF inflight[r].pc = "restore"
           THEN IF t \in DOMAIN tasks
                THEN /\ UNCHANGED <<tasks, deleted>>
                     /\ inflight' = Remove(inflight, r)
                     /\ res' = Response("POST /tasks/:id/undo", 500)
                ELSE /\ tasks' = Insert(tasks, t, doc.taskData)
                     /\ deleted' = deleted
                     /\ inflight' = [inflight EXCEPT ![r].pc = "remove", ![r].wrote = TRUE]
                     /\ res' = res
           ELSE /\ deleted' =
                     IF \E i \in DOMAIN deleted : deleted[i].did = doc.did
                     THEN RemoveAt(deleted, CHOOSE i \in DOMAIN deleted : deleted[i].did = doc.did)
                     ELSE deleted
                /\ tasks' = tasks
                /\ inflight' = Remove(inflight, r)
                /\ res' = Response("POST /tasks/:id/undo", 200)
    /\ UNCHANGED <<variant, users, groups, clock, nextGroupId, nextTaskId, snap>>

\* The storage call suspended handler r awaits rejects: the catch block
\* answers 500; the api server's group and task handlers have no try block.
Rejects(r) ==
    /\ r \in DOMAIN inflight
    /\ LET op == CASE inflight[r].op = "deleteGroup" -> "DELETE /groups/:id"
                   [] inflight[r].op = "deleteTask" -> "DELETE /tasks/:id"
                   [] inflight[r].op = "undo" -> "POST /tasks/:id/undo"
       IN  IF variant = "api"
           THEN \E s \in UncaughtStatus : res' = Response(op, s)
           ELSE res' = Response(op, 500)
    /\ inflight' = Remove(inflight, r)
    /\ UNCHANGED <<variant, users, groups, tasks, deleted, clock, nextGroupId, nextTaskId, snap>>

\* The requests that fill the collections: POST /groups, and POST /tasks into
\* no group or into a group that exists.
Populate ==
    \/ \E u \in UserIds : CreateGroupStep(u, "personal")
    \/ \E u \in UserIds, body \in Api_CreateBodies :
          /\ body.groupId \in DOMAIN groups \cup {NullId}
          /\ body.priority = "Low" /\ ~body.done
          /\ Api_CreateTask(u, body)
    \/ \E u \in UserIds, body \in Test_CreateBodies :
          /\ body.groupId \in DOMAIN groups \cup {NullId}
          /\ body.priority = "Low"
          /\ Test_CreateTask(u, body)
    \/ \E u \in UserIds, body \in Backend_CreateBodies :
          /\ body.groupId \in DOMAIN groups \cup {NullId}
          /\ body.priority = "Low"
          /\ Backend_CreateTask(u, body)

\* Groups are deleted by either user, so that the owner test has both
\* outcomes; tasks are deleted and restored by the first user, since no handler
\* compares the caller with the task's owner.
StepNext ==
    \/ Populate
    \/ \E u \in UserIds, g \in KnownGroupIds : DeleteGroup_begin(u, g)
    \/ \E r \in 1..MaxInflight : DeleteGroup_step(r)
    \/ \E u \in {1}, t \in KnownTaskIds : DeleteTask_begin(u, t)
    \/ \E r \in 1..MaxInflight : DeleteTask_step(r)
    \/ \E u \in {1}, t \in KnownTaskIds : Undo_begin(u, t)
    \/ \E r \in 1..MaxInflight : Undo_step(r)
    \/ \E r \in 1..MaxInflight : Rejects(r)

StepSpec == Init /\ [][StepNext]_vars

----
\* C22.  A group or task mutation that answers a failure has written nothing:
\* a handler that answers a failure at once leaves users, groups, tasks and
\* tombstones as they were, and no handler answers a failure after it has
\* applied one of its writes.
C22_FailureWritesNothing ==
    [][ /\ \A r \in DOMAIN inflight :
              (r \notin DOMAIN inflight' /\ res'.status \notin Success)
                  => ~inflight[r].wrote
        /\ (inflight' = inflight /\ res'.status \notin Success)
              => UNCHANGED <<users, groups, tasks, deleted>> ]_vars

----
(***************************************************************************)
(* Account deletion in the backend, DELETE /accounts/profile, followed     *)
(* await by await, while the users who are not deleting their account      *)
(* create groups and tasks and add collaborators.                          *)
(***************************************************************************)
CascadeInit == Init /\ variant = "backend"

\* protect lets a request through when User.findById finds its user; the
\* requests below come from users who are not deleting their account.
Others == DOMAIN users \ {inflight[r].u : r \in Suspended("deleteAccount")}

\* The handler up to its second await: Group.deleteMany({ owner: userId }).
DeleteAccount_begin(u) ==
    /\ u \in Others
    /\ FreeReqs # {}
    /\ groups' = [g \in {x \in DOMAIN groups : groups[x].owner # u} |-> groups[g]]
    /\ inflight' = Insert(inflight, NewReq, [op |-> "deleteAccount", u |-> u, pc |-> "tasks"])
    /\ UNCHANGED <<variant, users, tasks, deleted, clock, nextGroupId, nextTaskId, snap, res>>

\* The next storage call of the cascade: Task.deleteMany({ owner }), then
\* Group.updateMany({ collaborators }, { $pull }), then User.findByIdAndDelete.
DeleteAccount_step(r) ==
    /\ r \in Suspended("deleteAccount")
    /\ LET u == inflight[r].u IN
       CASE inflight[r].pc = "tasks" ->
              /\ tasks' = [t \in {x \in DOMAIN tasks : tasks[x].owner # u} |-> tasks[t]]
              /\ inflight' = [inflight EXCEPT ![r].pc = "pull"]
              /\ UNCHANGED <<users, groups, res>>
         [] inflight[r].pc = "pull" ->
              /\ groups' = [g \in DOMAIN groups |->
                              [groups[g] EXCEPT !.collaborators = pull(@, u)]]
              /\ inflight' = [inflight EXCEPT ![r].pc = "user"]
              /\ UNCHANGED <<users, tasks, res>>
         [] inflight[r].pc = "user" ->
              /\ users' = Remove(users, u)
              /\ inflight' = Remove(inflight, r)
              /\ res' = Response("DELETE /accounts/profile", 200)
              /\ UNCHANGED <<groups, tasks>>
    /\ UNCHANGED <<variant, deleted, clock, nextGroupId, nextTaskId, snap>>

CascadeNext ==
    \/ \E u \in UserIds : DeleteAccount_begin(u)
    \/ \E r \in 1..MaxInflight : DeleteAccount_step(r)
    \/ \E u \in Others, type \in GroupTypes : Backend_CreateGroup(u, type)
    \/ \E u \in Others, g \in KnownGroupIds, email \in Emails :
          Backend_AddCollaborator(u, g, email)
    \/ \E u \in Others, body \in Backend_CreateBodies : Backend_CreateTask(u, body)

CascadeSpec == CascadeInit /\ [][CascadeNext]_vars

\* C23.  At every step of an account deletion and after it, with other users'
\* requests in between, no group has a removed user as owner or collaborator
\* and no task has a removed user as owner.
C23_NoDanglingUser ==
    /\ \A g \in DOMAIN groups :
          /\ groups[g].owner \in DOMAIN users
          /\ \A c \in Range(groups[g].collaborators) : c \in DOMAIN users
    /\ \A t \in DOMAIN tasks : tasks[t].owner \in DOMAIN users

----
(***************************************************************************)
(* The gate in front of the /api routes: isAuthenticated in the api and    *)
(* test servers, protect in the backend.  A request is followed from its   *)
(* arrival through the middleware to the handler; its record counts the    *)
(* responses sent for it and notes whether the middleware read the User    *)
(* collection and whether the handler was invoked.                         *)
(***************************************************************************)
\* What a request carries: no token, a token jwt.verify refuses, or a token
\* signed for a user id.  The backend, which deletes accounts, also sees
\* tokens of users that are gone.
Tokens ==
    {[kind |-> k, userId |-> NullId] : k \in {"none", "invalid"}}
    \cup {[kind |-> "valid", userId |-> u] : u \in 1..(NumUsers + 1)}

Arrive(token) ==
    /\ FreeReqs # {}
    /\ variant = "backend" \/ token.userId \in DOMAIN users \cup {NullId}
    /\ inflight' = Insert(inflight, NewReq,
                          [op |-> "api", token |-> token, pc |-> "middleware", sent |-> 0,
                           status |-> 0, readUser |-> FALSE, invoked |-> FALSE])
    /\ UNCHANGED <<variant, users, groups, tasks, deleted, clock, nextGroupId, nextTaskId,
                   snap, res>>

\* Mutation: the middleware answers 401 and calls next() all the same.
Middleware_noReturn(r) ==
    /\ r \in Suspended("api") /\ inflight[r].pc = "middleware"
    /\ LET req == inflight[r]
           reject(status) == [req EXCEPT !.sent = @ + 1, !.status = status, !.pc = "done"]
           next == [req EXCEPT !.pc = "handler"]
       IN  /\ inflight' = [inflight EXCEPT ![r] =
                 IF req.token.kind = "valid" THEN next
                 ELSE [reject(401) EXCEPT !.pc = "handler"]]
           /\ res' = IF inflight'[r].sent > req.sent
                     THEN Response("/api", inflight'[r].status) ELSE res
    /\ UNCHANGED <<variant, users, groups, tasks, deleted, clock, nextGroupId, nextTaskId, snap>>

\* isAuthenticated: no token 401, jwt.verify error 403, else next().
\* protect: no cookie 401, jwt.verify throws 401, User.findById finds nobody
\* 401, else next().
Middleware(r) ==
    /\ r \in Suspended("api") /\ inflight[r].pc = "middleware"
    /\ LET req == inflight[r]
           reject(status) == [req EXCEPT !.sent = @ + 1, !.status = status, !.pc = "done"]
           next == [req EXCEPT !.pc = "handler"]
       IN  /\ inflight' = [inflight EXCEPT ![r] =
                 CASE req.token.kind = "none" -> reject(401)
                   [] req.token.kind = "invalid" ->
                        reject(IF variant = "backend" THEN 401 ELSE 403)
                   [] req.token.kind = "valid" /\ variant # "backend" -> next
                   [] req.token.kind = "valid" /\ variant = "backend" ->
                        IF req.token.userId \in DOMAIN users
                        THEN [next EXCEPT !.readUser = TRUE]
                        ELSE [reject(401) EXCEPT !.readUser = TRUE]]
           /\ res' = IF inflight'[r].sent > req.sent
                     THEN Response("/api", inflight'[r].status) ELSE res
    /\ UNCHANGED <<variant, users, groups, tasks, deleted, clock, nextGroupId, nextTaskId, snap>>

\* The route handler next() leads to: here POST /groups for a personal group,
\* or GET /data.
Handler(r) ==
    /\ r \in Suspended("api") /\ inflight[r].pc = "handler"
    /\ \/ /\ nextGroupId <= MaxGroups
          /\ groups' = Insert(groups, nextGroupId,
                              [type |-> "personal", owner |-> inflight[r].token.userId,
                               collaborators |-> <<>>])
          /\ nextGroupId' = nextGroupId + 1
          /\ inflight' = [inflight EXCEPT ![r].invoked = TRUE, ![r].pc = "done",
                                          ![r].sent = @ + 1, ![r].status = 201]
          /\ res' = Response("POST /groups", 201)
       \/ /\ UNCHANGED <<groups, nextGroupId>>
          /\ inflight' = [inflight EXCEPT ![r].invoked = TRUE, ![r].pc = "done",
                                          ![r].sent = @ + 1, ![r].status = 200]
          /\ res' = Response("GET /data", 200)
    /\ UNCHANGED <<variant, users, tasks, deleted, clock, nextTaskId, snap>>

\* The connection of an answered request closes.
Close(r) ==
    /\ r \in Suspended("api") /\ inflight[r].pc = "done"
    /\ inflight' = Remove(inflight, r)
    /\ UNCHANGED <<variant, users, groups, tasks, deleted, clock, nextGroupId, nextTaskId,
                   snap, res>>

AuthNext ==
    \/ \E token \in Tokens : Arrive(token)
    \/ \E r \in 1..MaxInflight : Middleware(r)
    \/ \E r \in 1..MaxInflight : Handler(r)
    \/ \E r \in 1..MaxInflight : Close(r)

AuthSpec == Init /\ [][AuthNext]_vars

\* A request with no token or with a token jwt.verify refuses.
Unauthenticated(req) == req.op = "api" /\ req.token.kind \in {"none", "invalid"}

\* C24.  A request that carries no token or an invalid token gets exactly one
\* response, 401 when the token is missing and 403 or 401 when it is invalid;
\* its handler is never invoked, the middleware reads no user for it, and no
\* step taken for it changes users, groups, tasks or tombstones.
C24_NoHandlerWithoutToken ==
    [][ \A r \in DOMAIN inflight' :
          Unauthenticated(inflight'[r]) =>
            /\ ~inflight'[r].invoked
            /\ ~inflight'[r].readUser
            /\ inflight'[r].pc # "handler"
            /\ inflight'[r].sent = (IF inflight'[r].pc = "done" THEN 1 ELSE 0)
            /\ inflight'[r].pc = "done" =>
                  inflight'[r].status \in
                      (IF inflight'[r].token.kind = "none" THEN {401} ELSE {401, 403})
            /\ (r \notin DOMAIN inflight \/ inflight[r] # inflight'[r]) =>
                  UNCHANGED <<users, groups, tasks, deleted>> ]_vars

\* Both kinds of rejected request have been answered, one in each slot, in the
\* api server.
C24_Witness ==
    /\ variant = "api"
    /\ \E r, q \in DOMAIN inflight :
          /\ inflight[r].op = "api" /\ inflight[q].op = "api"
          /\ inflight[r].token.kind = "none" /\ inflight[r].status = 401
          /\ inflight[q].token.kind = "invalid" /\ inflight[q].status = 403
          /\ inflight[r].pc = "done" /\ inflight[q].pc = "done"

----
\* C25.  In every reachable state every task whose group is not null
\* references a group that exists.
C25_TaskGroupExists ==
    \A t \in DOMAIN tasks :
        tasks[t].group # NullId => tasks[t].group \in DOMAIN groups

----
\* C26.  The group delete handler ungroups, then deletes: a step removes a
\* group only as the second storage step of a delete handler that has run its
\* ungroup step, so a handler stopped between the two steps has left the
\* group in place.
C26_UngroupThenDelete ==
    [][ \A g \in DOMAIN groups \ DOMAIN groups' :
            \E r \in Suspended("deleteGroup") :
                inflight[r].g = g /\ inflight[r].pc = "delete" ]_vars

----
\* C27.  Under every interleaving of soft deletes and undos, a task that was
\* created is at all times either a live task or held by exactly one
\* tombstone: never both, never twice, never gone with no tombstone (nothing
\* expires in these runs, so no task is purged).
C27_OneLifecycleState ==
    \A t \in KnownTaskIds :
        /\ ~(Active(t) /\ Tombstoned(t))
        /\ Cardinality({i \in DOMAIN deleted : deleted[i].id = t}) <= 1
        /\ Active(t) \/ Tombstoned(t)

----
(***************************************************************************)
(* Requests that change one group's collaborators, followed await by       *)
(* await: each handler reads the group, decides on its copy, and then      *)
(* makes one storage call.  The group carries Mongoose's version key __v   *)
(* as field v.  Requests that overlap form a batch; answered requests stay *)
(* on record until the batch has quiesced.                                 *)
(***************************************************************************)
\* Writes of one group's version key followed.
MaxVersion == 3

\* One group, as POST /groups of user 1 has just created it.
CollabInit ==
    /\ variant \in Variants
    /\ users = [u \in UserIds |-> [email |-> u]]
    /\ \E type \in GroupTypes :
          groups = [g \in {1} |->
                      [type |-> type, owner |-> 1, v |-> 0,
                       collaborators |-> IF type = "collab" /\ variant # "backend"
                                         THEN <<1>> ELSE <<>>]]
    /\ tasks = <<>> /\ deleted = <<>> /\ clock = 0
    /\ nextGroupId = 2 /\ nextTaskId = 1
    /\ snap = <<>> /\ res = Response("none", 0) /\ inflight = <<>>

\* The routes each server has: add is POST /groups/:id/collaborators with the
\* user the email names, remove is DELETE /groups/:groupId/collaborators/:userId,
\* update is PUT /groups/:id with a type.
CollabRequests ==
    [kind : {"add"}, u : UserIds, arg : UserIds]
    \cup (IF variant = "api"
          THEN [kind : {"remove"}, u : UserIds, arg : UserIds]
               \cup [kind : {"update"}, u : UserIds, arg : GroupTypes]
          ELSE {})

\* What the handler decides on the group document it has read: the status it
\* answers at once, or 0 to go on to its storage call.
CollabRead(req, grp) ==
    CASE req.kind = "add" /\ variant = "api" ->
           IF grp.owner = req.arg THEN 400 ELSE 0
      [] req.kind = "add" /\ variant = "test" ->
           IF grp.type # "collab" THEN 400 ELSE 0
      [] req.kind = "add" /\ variant = "backend" ->
           IF grp.owner # req.u THEN 401
           ELSE IF includes(grp.collaborators, req.arg) THEN 400 ELSE 0
      [] req.kind = "remove" ->
           IF grp.owner # req.u /\ req.u # req.arg THEN 403 ELSE 0
      [] req.kind = "update" ->
           IF grp.owner # req.u THEN 404 ELSE 0

\* The storage call of the handler, which holds copy, on the stored group grp:
\* the group it leaves and the status answered.
\*   add     api: updateOne({ _id, type: "collab" }, $addToSet); test:
\*           findByIdAndUpdate($addToSet); backend: push and save, a $push
\*           that increments __v
\*   remove  pull and save: a $pullAll that increments __v
\*   update  save of the paths changed on the copy: type by $set;
\*           collaborators = [] by a $set matched on the copy's __v
\*           (VersionError otherwise); push of the owner by $push
CollabWrite(req, copy, grp) ==
    LET ok(g) == [grp |-> g, status |-> 200] IN
    CASE req.kind = "add" /\ variant = "api" ->
           ok([grp EXCEPT !.collaborators =
                  IF grp.type = "collab" THEN addToSet(@, req.arg) ELSE @])
      [] req.kind = "add" /\ variant = "test" ->
           ok([grp EXCEPT !.collaborators = addToSet(@, req.arg)])
      [] req.kind = "add" /\ variant = "backend" ->
           ok([grp EXCEPT !.collaborators = Append(@, req.arg), !.v = @ + 1])
      [] req.kind = "remove" ->
           ok([grp EXCEPT !.collaborators = pull(@, req.arg), !.v = @ + 1])
      [] req.kind = "update" /\ req.arg = "personal" ->
           IF copy.collaborators = <<>>
           THEN ok([grp EXCEPT !.type = IF copy.type # "personal" THEN "personal" ELSE @])
           ELSE IF grp.v # copy.v THEN [grp |-> grp, status |-> 500]
           ELSE ok([grp EXCEPT !.type = "personal", !.collaborators = <<>>, !.v = @ + 1])
      [] req.kind = "update" /\ req.arg = "collab" ->
           LET pushes == ~includes(copy.collaborators, req.u) IN
           ok([grp EXCEPT !.type = IF copy.type # "collab" THEN "collab" ELSE @,
                          !.collaborators = IF pushes THEN Append(@, req.u) ELSE @,
                          !.v = IF pushes THEN @ + 1 ELSE @])

\* The handler run with no other request in between.
CollabApply(req, grp) ==
    IF CollabRead(req, grp) # 0 THEN grp ELSE CollabWrite(req, grp, grp).grp

\* The group as it was when the batch began.
BatchStart == inflight[CHOOSE r \in DOMAIN inflight : TRUE].start

\* A request arrives and its handler runs up to its storage call.
Collab_begin(req) ==
    /\ FreeReqs # {}
    /\ groups[1].v + Cardinality(DOMAIN inflight) < MaxVersion
    /\ LET status == CollabRead(req, groups[1])
           start == IF inflight = <<>> THEN groups[1] ELSE BatchStart
       IN  /\ inflight' = Insert(inflight, NewReq,
                                 [op |-> "collab", req |-> req, copy |-> groups[1],
                                  start |-> start, status |-> status,
                                  pc |-> IF status = 0 THEN "write" ELSE "done"])
           /\ res' = IF status = 0 THEN res ELSE Response(req.kind, status)
    /\ UNCHANGED <<variant, users, groups, tasks, deleted, clock, nextGroupId, nextTaskId, snap>>

Collab_step(r) ==
    /\ r \in Suspended("collab") /\ inflight[r].pc = "write"
    /\ LET w == CollabWrite(inflight[r].req, inflight[r].copy, groups[1]) IN
       /\ groups' = [groups EXCEPT ![1] = w.grp]
       /\ inflight' = [inflight EXCEPT ![r].pc = "done", ![r].status = w.status]
       /\ res' = Response(inflight[r].req.kind, w.status)
    /\ UNCHANGED <<variant, users, tasks, deleted, clock, nextGroupId, nextTaskId, snap>>

\* Every request of the batch has been answered.
Quiescent == inflight # <<>> /\ \A r \in DOMAIN inflight : inflight[r].pc = "done"

Collab_close ==
    /\ Quiescent
    /\ inflight' = <<>>
    /\ UNCHANGED <<variant, users, groups, tasks, deleted, clock, nextGroupId, nextTaskId,
                   snap, res>>

CollabNext ==
    \/ \E req \in CollabRequests : Collab_begin(req)
    \/ \E r \in 1..MaxInflight : Collab_step(r)
    \/ Collab_close

CollabSpec == CollabInit /\ [][CollabNext]_vars

\* The requests of the batch that were answered 200, in every order.
SerialOrders ==
    LET S == {r \in DOMAIN inflight : inflight[r].status = 200}
    IN  {p \in [1..Cardinality(S) -> S] : \A i, j \in DOMAIN p : p[i] = p[j] => i = j}

\* The group after the handlers of order p have run one after the other,
\* from the i-th on, starting at grp.
RECURSIVE Replay(_, _, _)
Replay(p, i, grp) ==
    IF i > Len(p) THEN grp
    ELSE Replay(p, i + 1, CollabApply(inflight[p[i]].req, grp))

\* C28.  When a batch of overlapping addCollaborator, removeCollaborator and
\* group-update requests has been answered, the group's collaborators, as a
\* set, are what running the successful requests one after the other, in some
\* order, from the group the batch started on leaves.
C28_CollaboratorsSerializable ==
    Quiescent =>
        \E p \in SerialOrders :
            Range(Replay(p, 1, BatchStart).collaborators)
                = Range(groups[1].collaborators)

----
(***************************************************************************)
(* Route matching.  The DELETE routes of each router in the order they are *)
(* registered; a request goes to the first route whose pattern matches its *)
(* path segment by segment, a parameter matching any segment.              *)
(***************************************************************************)
Params == {":id", ":groupId", ":userId"}

DeleteRoutes ==
    CASE variant = "api" ->
           << [pattern |-> <<"groups", ":id">>, handler |-> "deleteGroup"],
              [pattern |-> <<"groups", ":groupId", "collaborators", ":userId">>,
               handler |-> "removeCollaborator"],
              [pattern |-> <<"tasks", ":id">>, handler |-> "deleteTask"],
              [pattern |-> <<"tasks", "completed">>, handler |-> "clearCompleted"] >>
      [] variant = "test" ->
           << [pattern |-> <<"groups", ":id">>, handler |-> "deleteGroup"],
              [pattern |-> <<"tasks", ":id">>, handler |-> "deleteTask"],
              [pattern |-> <<"tasks", "completed">>, handler |-> "clearCompleted"] >>
      [] variant = "backend" ->
           << [pattern |-> <<"groups", ":id">>, handler |-> "deleteGroup"],
              [pattern |-> <<"tasks", ":id">>, handler |-> "deleteTask"],
              [pattern |-> <<"completed">>, handler |-> "clearCompleted"] >>

Matches(pattern, path) ==
    /\ Len(pattern) = Len(path)
    /\ \A i \in DOMAIN pattern : pattern[i] \in Params \/ pattern[i] = path[i]

\* The handler a DELETE request for path runs, "none" when no route matches.
Dispatch(path) ==
    LET hits == {i \in DOMAIN DeleteRoutes : Matches(DeleteRoutes[i].pattern, path)}
    IN  IF hits = {} THEN "none"
        ELSE DeleteRoutes[CHOOSE i \in hits : \A j \in hits : i <= j].handler

\* C29.  A DELETE request to /api/tasks/completed is dispatched to the
\* clear-completed handler, not to the single-task delete handler with id =
\* "completed", and is answered with that handler's result.
C29_ClearCompletedDispatched ==
    [][ res'.op = "DELETE /tasks/completed" =>
            /\ Dispatch(<<"tasks", "completed">>) = "clearCompleted"
            /\ res'.status \in Success ]_vars

----
\* C30.  The only transitions are Active -> Tombstoned, Tombstoned -> Active
\* and Tombstoned -> Purged: an undo on a task that is not tombstoned (Active,
\* purged, or restored by an earlier undo) fails and changes no task; an undo
\* that succeeds for one user would not have succeeded for another, the one
\* who did not soft-delete the task; a soft delete of a tombstoned task
\* leaves it with one tombstone whose expiry is no later than before.
C30_LifecycleTransitions ==
    [][ \A u \in UserIds, t \in KnownTaskIds :
          /\ (UndoStep(u, t) /\ ~Tombstoned(t)) =>
                (res'.status \notin Success /\ UNCHANGED <<tasks, deleted>>)
          /\ (UndoStep(u, t) /\ Tombstoned(t) /\ res'.status \in Success) =>
                \A w \in UserIds \ {u} :
                    ~ENABLED (UndoStep(w, t) /\ res'.status \in Success)
          /\ (DeleteTaskStep(u, t) /\ Tombstoned(t)) =>
                /\ Tombstoned(t)'
                /\ Cardinality({i \in DOMAIN deleted' : deleted'[i].id = t}) <= 1
                /\ ExpiresAt(t)' <= ExpiresAt(t) ]_vars

====
